---- MODULE Spec2Model ----
(***************************************************************************)
(* net_collector: connection lifecycle of ConnectionManager, the two       *)
(* DeviceSession builders (NetmikoSession.build, _connect_with_telnet),    *)
(* CommandExecutor.execute_commands and NetCollector.run.                  *)
(*                                                                         *)
(* Network handles (paramiko SSHClient, netmiko connection, TelnetSocket)  *)
(* are entries of `handles`; an entry counts the close()/disconnect()      *)
(* calls made on it.  The peer's behaviour (a hop refusing, a read timing  *)
(* out, a close raising) is the input of each action, drawn with \E.       *)
(***************************************************************************)
EXTENDS Integers, Sequences, FiniteSets, TLC

\* Bounds of the model.
MaxBastions == 2
MaxCalls == 3
MaxCommands == 2
MaxStream == 4
MaxText == 4
MaxChunks == 2
MaxRaw == 5
MaxPages == 1
MaxCycles == 3

VARIABLES
    bastions,   \* ConnectionManager.bastions: the protocol of each BastionConfig, in order
    device,     \* ConnectionManager.device: [protocol, vendor, enable_password]
    session,    \* ConnectionManager._session: 0 is None, otherwise an index of sessions
    sessions,   \* every DeviceSession object a builder has returned
    handles,    \* every network handle opened so far
    trace,      \* the handle operations performed by the last call, in order
    outcome,    \* how the last call ended: [op, err, path]
    calls,      \* number of connect()/disconnect() calls made on the manager
    pc,         \* position of NetCollector.run ("idle": run has not been entered)
    commands,   \* the command list handed to execute_commands
    sent,       \* the Session.send_command invocations of the last batch: [name, raised]
    skipped,    \* names of the commands execute_commands logged as skipped
    results,    \* NetCollector.run's local `results`
    runErr,     \* the exception propagating out of run's try block ("none": none)
    wire,       \* bytes the peer has sent that no recv() has returned yet
    rcvd,       \* every byte recv() has returned so far, in order
    buffer,     \* TelnetSocket._buffer
    sentBytes,  \* bytes TelnetSocket sent with sendall() while processing input
    call,       \* the read_until call: its position, clock and locals
    probe       \* a pattern search on a text: [text, pattern, matched]

\* The connection manager, the executor and NetCollector.run.
mgrVars == <<bastions, device, session, sessions, handles, trace, outcome,
             calls, pc, commands, sent, skipped, results, runErr>>

\* One TelnetSocket.
sockVars == <<wire, rcvd, buffer, sentBytes, call, probe>>

vars == <<mgrVars, sockVars>>

-----------------------------------------------------------------------------
\* Values

None == "<None>"

\* str.lower() on the strings the model uses.
Lower(s) ==
    CASE s = "Telnet" -> "telnet"
      [] s = "SSH" -> "ssh"
      [] s = "Cisco" -> "cisco"
      [] s = "Juniper" -> "juniper"
      [] OTHER -> s

BastionProtocols == {"ssh", "telnet", "Telnet"}
DeviceProtocols == {"ssh", "telnet"}
DeviceVendors == {"juniper", "cisco"}
CommandVendors == {None, "Cisco", "juniper"}

SeqsUpTo(S, n) == UNION {[1..k -> S] : k \in 0..n}

NoFault == [step |-> "none", hop |-> 0, err |-> "none"]

\* One operation on the network: its name, the hop it is for (0: none), the
\* handle it opened or acted on (0: none) and whether it succeeded.
Ev(op, hop, h, ok) == [op |-> op, hop |-> hop, h |-> h, ok |-> ok]

NewHandle(kind, hop) == [kind |-> kind, hop |-> hop, open |-> TRUE, closes |-> 0]

\* The local state of a builder: handles table, the builder's `clients` list,
\* the final connection (netmiko conn or TelnetSocket), operations so far,
\* the exception raised ("none" while running), and which builder ran.
BuildState(hs, path) ==
    [handles |-> hs, clients |-> <<>>, conn |-> 0, trace |-> <<>>,
     err |-> "none", path |-> path]

-----------------------------------------------------------------------------
\* NetmikoSession.build

NetmikoFaults(bs, dev) ==
    {[step |-> "connect", hop |-> i, err |-> e] :
        i \in 1..Len(bs), e \in {"AuthenticationException", "SocketError"}}
    \cup {[step |-> "channel", hop |-> i, err |-> "ChannelException"] : i \in 1..Len(bs)}
    \cup {[step |-> "engine", hop |-> 0, err |-> e] :
            e \in {"NetmikoAuthenticationException", "NetmikoTimeoutException"}}
    \cup (IF dev.enable_password
            THEN {[step |-> "enable", hop |-> 0, err |-> "ValueError"]}
            ELSE {})

\* The for loop over bastions: client.connect, clients.append, open_channel.
\* An exception leaves the loop (and build) at once; nothing is closed.
RECURSIVE BuildHops(_, _, _, _)
BuildHops(i, bs, f, st) ==
    IF i > Len(bs) THEN st
    ELSE IF f.step = "connect" /\ f.hop = i
    THEN [st EXCEPT !.err = f.err,
                    !.trace = Append(@, Ev("client.connect", i, 0, FALSE))]
    ELSE LET h == Len(st.handles) + 1
             st1 == [st EXCEPT !.handles = Append(@, NewHandle("client", i)),
                               !.clients = Append(@, h),
                               !.trace = Append(@, Ev("client.connect", i, h, TRUE))]
         IN IF f.step = "channel" /\ f.hop = i
            THEN [st1 EXCEPT !.err = f.err,
                             !.trace = Append(@, Ev("open_channel", i, h, FALSE))]
            ELSE BuildHops(i + 1, bs, f,
                    [st1 EXCEPT !.trace = Append(@, Ev("open_channel", i, h, TRUE))])

NetmikoBuild(bs, dev, f, hs) ==
    LET st == BuildHops(1, bs, f, BuildState(hs, "netmiko"))
    IN IF st.err # "none" THEN st
       ELSE IF f.step = "engine"
       THEN [st EXCEPT !.err = f.err,
                       !.trace = Append(@, Ev("ConnectHandler", 0, 0, FALSE))]
       ELSE LET c == Len(st.handles) + 1
                st1 == [st EXCEPT !.handles = Append(@, NewHandle("engine", 0)),
                                  !.conn = c,
                                  !.trace = Append(@, Ev("ConnectHandler", 0, c, TRUE))]
            IN IF ~dev.enable_password THEN st1
               ELSE IF f.step = "enable"
               THEN [st1 EXCEPT !.err = f.err,
                                !.trace = Append(@, Ev("conn.enable", 0, c, FALSE))]
               ELSE [st1 EXCEPT !.trace = Append(@, Ev("conn.enable", 0, c, TRUE))]

\* NetmikoSession.disconnect: the engine first, then every client in reverse
\* order; each exception is caught and logged.  `failing` is the set of handles
\* whose disconnect()/close() raises.
RECURSIVE CloseClients(_, _, _, _)
CloseClients(cs, i, failing, st) ==
    IF i = 0 THEN st
    ELSE LET h == cs[i]
             hs0 == st.handles
         IN CloseClients(cs, i - 1, failing,
                [handles |-> [st.handles EXCEPT ![h].closes = @ + 1,
                                                ![h].open = (h \in failing)],
                 trace |-> Append(st.trace, Ev("client.close", hs0[h].hop, h, h \notin failing)),
                 err |-> st.err])

\* Faulty variant: the clients are closed in the order they were opened.
RECURSIVE CloseClientsForward(_, _, _, _)
CloseClientsForward(cs, i, failing, st) ==
    IF i > Len(cs) THEN st
    ELSE LET h == cs[i]
         IN CloseClientsForward(cs, i + 1, failing,
                [handles |-> [st.handles EXCEPT ![h].closes = @ + 1,
                                                ![h].open = (h \in failing)],
                 trace |-> Append(st.trace,
                                  Ev("client.close", st.handles[h].hop, h, h \notin failing)),
                 err |-> st.err])

NetmikoDisconnectForward(s, failing, hs) ==
    LET c == s.conn
        st == [handles |-> [hs EXCEPT ![c].closes = @ + 1, ![c].open = (c \in failing)],
               trace |-> <<Ev("conn.disconnect", 0, c, c \notin failing)>>,
               err |-> "none"]
    IN CloseClientsForward(s.clients, 1, failing, st)

NetmikoDisconnect(s, failing, hs) ==
    LET c == s.conn
        st == [handles |-> [hs EXCEPT ![c].closes = @ + 1, ![c].open = (c \in failing)],
               trace |-> <<Ev("conn.disconnect", 0, c, c \notin failing)>>,
               err |-> "none"]
    IN CloseClients(s.clients, Len(s.clients), failing, st)

-----------------------------------------------------------------------------
\* InteractiveSession, as far as ConnectionManager drives it

\* Every step of _connect_with_telnet that can raise: TelnetSocket.open,
\* login_shell, ssh_to/telnet_to for bastions[1:] and the device, setup_device.
InteractiveFaults(bs, dev) ==
    {[step |-> "open", hop |-> 0, err |-> e] : e \in {"ConnectionRefusedError", "SocketTimeout"}}
    \cup {[step |-> "login_shell", hop |-> 0, err |-> e] : e \in {"TimeoutError", "ConnectionError"}}
    \cup {[step |-> "hop", hop |-> i, err |-> e] :
            i \in 2..Len(bs), e \in {"TimeoutError", "ConnectionError"}}
    \cup {[step |-> "device", hop |-> 0, err |-> e] : e \in {"TimeoutError", "ConnectionError"}}
    \cup {[step |-> "setup_device", hop |-> 0, err |-> "TimeoutError"]}

\* Faulty variant: the two operations are exchanged.
HopOpExchanged(protocol) == IF Lower(protocol) = "ssh" THEN "telnet_to" ELSE "ssh_to"

\* ssh_to for a hop declared "ssh", telnet_to for anything else.
HopOp(protocol) == IF Lower(protocol) = "ssh" THEN "ssh_to" ELSE "telnet_to"

\* for hop in self.bastions[1:]
RECURSIVE HopLoop(_, _, _, _)
HopLoop(i, bs, f, st) ==
    IF i > Len(bs) THEN st
    ELSE IF f.step = "hop" /\ f.hop = i
    THEN [st EXCEPT !.err = f.err, !.trace = Append(@, Ev(HopOp(bs[i]), i, st.conn, FALSE))]
    ELSE HopLoop(i + 1, bs, f, [st EXCEPT !.trace = Append(@, Ev(HopOp(bs[i]), i, st.conn, TRUE))])

\* _connect_with_telnet after its topology guard: TelnetSocket.open,
\* login_shell, the hops, the device, setup_device.  An exception leaves the
\* method at once; the socket is not closed.
InteractiveChain(bs, dev, f, hs) ==
    LET st0 == BuildState(hs, "interactive")
    IN IF f.step = "open"
       THEN [st0 EXCEPT !.err = f.err, !.trace = <<Ev("telnet.open", 1, 0, FALSE)>>]
       ELSE LET h == Len(hs) + 1
                st1 == [st0 EXCEPT !.handles = Append(@, NewHandle("socket", 1)),
                                   !.conn = h,
                                   !.trace = <<Ev("telnet.open", 1, h, TRUE)>>]
            IN IF f.step = "login_shell"
               THEN [st1 EXCEPT !.err = f.err,
                                !.trace = Append(@, Ev("login_shell", 1, h, FALSE))]
               ELSE LET st2 == HopLoop(2, bs, f,
                                 [st1 EXCEPT !.trace = Append(@, Ev("login_shell", 1, h, TRUE))])
                        n == Len(bs) + 1
                    IN IF st2.err # "none" THEN st2
                       ELSE IF f.step = "device"
                       THEN [st2 EXCEPT !.err = f.err,
                                !.trace = Append(@, Ev(HopOp(dev.protocol), n, h, FALSE))]
                       ELSE IF f.step = "setup_device"
                       THEN [st2 EXCEPT !.err = f.err,
                                !.trace = Append(Append(@, Ev(HopOp(dev.protocol), n, h, TRUE)),
                                                 Ev("setup_device", n, h, FALSE))]
                       ELSE [st2 EXCEPT
                                !.trace = Append(Append(@, Ev(HopOp(dev.protocol), n, h, TRUE)),
                                                 Ev("setup_device", n, h, TRUE))]

\* Faulty variant: the topology guard is off by one.
ConnectWithTelnetOffByOne(telnet_idx, bs, dev, f, hs) ==
    IF telnet_idx > 1
    THEN [BuildState(hs, "interactive") EXCEPT !.err = "NotImplementedError"]
    ELSE InteractiveChain(bs, dev, f, hs)

\* _connect_with_telnet; telnet_idx is 0-based, as in the source.
ConnectWithTelnet(telnet_idx, bs, dev, f, hs) ==
    IF telnet_idx > 0
    THEN [BuildState(hs, "interactive") EXCEPT !.err = "NotImplementedError"]
    ELSE InteractiveChain(bs, dev, f, hs)

\* InteractiveSession.disconnect -> TelnetSocket.close: closes the socket if
\* it is set, swallows OSError, and clears _sock either way.
InteractiveDisconnect(s, failing, hs) ==
    LET h == s.conn
    IN IF hs[h].open
       THEN [handles |-> [hs EXCEPT ![h].closes = @ + 1, ![h].open = FALSE],
             trace |-> <<Ev("telnet.close", 1, h, h \notin failing)>>,
             err |-> "none"]
       ELSE [handles |-> hs, trace |-> <<>>, err |-> "none"]

SessionDisconnect(s, failing, hs) ==
    IF s.kind = "netmiko" THEN NetmikoDisconnect(s, failing, hs)
    ELSE InteractiveDisconnect(s, failing, hs)

-----------------------------------------------------------------------------
\* ConnectionManager

\* _find_first_telnet_idx: 0-based index of the first telnet bastion, or -1.
RECURSIVE FindFrom(_, _)
FindFrom(bs, i) ==
    IF i > Len(bs) THEN -1
    ELSE IF Lower(bs[i]) = "telnet" THEN i - 1
    ELSE FindFrom(bs, i + 1)

\* Faulty variant: the protocol is compared without lower().
RECURSIVE FindFromCaseSensitive(_, _)
FindFromCaseSensitive(bs, i) ==
    IF i > Len(bs) THEN -1
    ELSE IF bs[i] = "telnet" THEN i - 1
    ELSE FindFromCaseSensitive(bs, i + 1)

FindFirstTelnetIdxCaseSensitive(bs) == FindFromCaseSensitive(bs, 1)

FindFirstTelnetIdx(bs) == FindFrom(bs, 1)

ConnectFaults(bs, dev) ==
    {NoFault} \cup
    (IF FindFirstTelnetIdx(bs) = -1 THEN NetmikoFaults(bs, dev)
     ELSE IF FindFirstTelnetIdx(bs) = 0 THEN InteractiveFaults(bs, dev)
     ELSE {})

\* ConnectionManager.connect: the builder's result; self._session is assigned
\* only when the builder returns.
ManagerConnect(f) ==
    LET idx == FindFirstTelnetIdx(bastions)
        st == IF idx = -1 THEN NetmikoBuild(bastions, device, f, handles)
              ELSE ConnectWithTelnet(idx, bastions, device, f, handles)
    IN /\ handles' = st.handles
       /\ trace' = st.trace
       /\ outcome' = [op |-> "connect", err |-> st.err, path |-> st.path]
       /\ IF st.err = "none"
          THEN /\ sessions' = Append(sessions,
                      [kind |-> st.path, clients |-> st.clients,
                       conn |-> st.conn, disconnects |-> 0])
               /\ session' = Len(sessions) + 1
          ELSE UNCHANGED <<sessions, session>>

\* Faulty variant: self._session is not cleared.
ManagerDisconnectKeepsSession(failing) ==
    IF session # 0
    THEN LET st == SessionDisconnect(sessions[session], failing, handles)
         IN /\ handles' = st.handles
            /\ trace' = st.trace
            /\ sessions' = [sessions EXCEPT ![session].disconnects = @ + 1]
            /\ session' = session
            /\ outcome' = [op |-> "disconnect", err |-> st.err, path |-> sessions[session].kind]
    ELSE /\ trace' = <<>>
         /\ outcome' = [op |-> "disconnect", err |-> "none", path |-> "none"]
         /\ UNCHANGED <<handles, sessions, session>>

\* ConnectionManager.disconnect
ManagerDisconnect(failing) ==
    IF session # 0
    THEN LET st == SessionDisconnect(sessions[session], failing, handles)
         IN /\ handles' = st.handles
            /\ trace' = st.trace
            /\ sessions' = [sessions EXCEPT ![session].disconnects = @ + 1]
            /\ session' = 0
            /\ outcome' = [op |-> "disconnect", err |-> st.err, path |-> sessions[session].kind]
    ELSE /\ trace' = <<>>
         /\ outcome' = [op |-> "disconnect", err |-> "none", path |-> "none"]
         /\ UNCHANGED <<handles, sessions, session>>

\* The handles whose close may raise: those of the session being disconnected.
CloseFaults ==
    IF session = 0 THEN {{}}
    ELSE SUBSET ({sessions[session].conn}
                 \cup {sessions[session].clients[i] : i \in 1..Len(sessions[session].clients)})

-----------------------------------------------------------------------------
\* A caller using the manager directly (connector.py / executor.py __main__)

Connect ==
    /\ pc = "idle"
    /\ calls < MaxCalls
    /\ \E f \in ConnectFaults(bastions, device) : ManagerConnect(f)
    /\ calls' = calls + 1
    /\ UNCHANGED <<bastions, device, pc, commands, sent, skipped, results, runErr>>
    /\ UNCHANGED sockVars

Disconnect ==
    /\ pc = "idle"
    /\ calls < MaxCalls
    /\ \E failing \in CloseFaults : ManagerDisconnect(failing)
    /\ calls' = calls + 1
    /\ UNCHANGED <<bastions, device, pc, commands, sent, skipped, results, runErr>>
    /\ UNCHANGED sockVars

-----------------------------------------------------------------------------
\* CommandExecutor

\* A CommandConfig is [name, vendor]; names are the positions in the list.
CommandLists ==
    {[i \in 1..Len(vs) |-> [name |-> i, vendor |-> vs[i]]] :
        vs \in SeqsUpTo(CommandVendors, MaxCommands)}

\* Faulty variant: the vendors are compared as written.
ShouldExecuteCaseSensitive(cmd, dev) ==
    IF cmd.vendor = None THEN TRUE
    ELSE cmd.vendor = dev.vendor

\* _should_execute
ShouldExecute(cmd, dev) ==
    IF cmd.vendor = None THEN TRUE
    ELSE Lower(cmd.vendor) = Lower(dev.vendor)

\* Faulty variant: the applicable commands are taken last first.
TargetsReversed(cmds, dev) ==
    LET t == SelectSeq(cmds, LAMBDA c : ShouldExecute(c, dev))
    IN [i \in 1..Len(t) |-> t[Len(t) + 1 - i]]

\* targets = [c for c in commands if self._should_execute(c)]
Targets(cmds, dev) == SelectSeq(cmds, LAMBDA c : ShouldExecute(c, dev))

\* skipped = [c for c in commands if not self._should_execute(c)], by name
Skipped(cmds, dev) ==
    LET sk == SelectSeq(cmds, LAMBDA c : ~ShouldExecute(c, dev))
    IN [i \in 1..Len(sk) |-> sk[i].name]

\* for idx, cmd_config in enumerate(targets, start=1): _execute_one raises
\* whatever send_command raises; nothing catches it.
RECURSIVE ExecLoop(_, _, _, _, _)
ExecLoop(idx, targets, failAt, e, st) ==
    IF idx > Len(targets) THEN st
    ELSE IF idx = failAt
    THEN [st EXCEPT !.sent = Append(@, [name |-> targets[idx].name, raised |-> TRUE]),
                    !.err = e]
    ELSE ExecLoop(idx + 1, targets, failAt, e,
            [st EXCEPT !.sent = Append(@, [name |-> targets[idx].name, raised |-> FALSE]),
                       !.results = Append(@, [command_name |-> targets[idx].name,
                                              device_name |-> "device"])])

\* Faulty variant: an exception of send_command is caught and the loop goes on.
RECURSIVE ExecLoopContinue(_, _, _, _, _)
ExecLoopContinue(idx, targets, failAt, e, st) ==
    IF idx > Len(targets) THEN st
    ELSE IF idx = failAt
    THEN ExecLoopContinue(idx + 1, targets, failAt, e,
            [st EXCEPT !.sent = Append(@, [name |-> targets[idx].name, raised |-> TRUE]),
                       !.err = e])
    ELSE ExecLoopContinue(idx + 1, targets, failAt, e,
            [st EXCEPT !.sent = Append(@, [name |-> targets[idx].name, raised |-> FALSE]),
                       !.results = Append(@, [command_name |-> targets[idx].name,
                                              device_name |-> "device"])])

ExecuteCommandsContinue(cmds, dev, failAt, e) ==
    ExecLoopContinue(1, Targets(cmds, dev), failAt, e,
             [sent |-> <<>>, skipped |-> Skipped(cmds, dev), results |-> <<>>,
              err |-> "none"])

\* execute_commands: failAt is the applicable command whose send_command
\* raises e (0: none does).  `results` of the value is the list being built;
\* it is returned only when err is "none".
ExecuteCommands(cmds, dev, failAt, e) ==
    ExecLoop(1, Targets(cmds, dev), failAt, e,
             [sent |-> <<>>, skipped |-> Skipped(cmds, dev), results |-> <<>>,
              err |-> "none"])

-----------------------------------------------------------------------------
\* NetCollector.run, from `manager = ConnectionManager(...)` on

\* Faulty variant: no finally; an exception leaves run without the disconnect.
TryExitNoFinally(e) == IF e = "none" THEN "finally" ELSE "raised"

\* try: ... finally: manager.disconnect() -- where control goes when the try
\* block is left with exception e ("none": by the return statement).
TryExit(e) == "finally"

\* manager.connect() is outside the try block: a failure leaves run at once.
RunConnect ==
    /\ pc = "idle"
    /\ calls = 0
    /\ \E f \in ConnectFaults(bastions, device) : ManagerConnect(f)
    /\ calls' = calls + 1
    /\ pc' = IF outcome'.err = "none" THEN "try" ELSE "raised"
    /\ runErr' = outcome'.err
    /\ UNCHANGED <<bastions, device, commands, sent, skipped, results>>
    /\ UNCHANGED sockVars

\* results = executor.execute_commands(self.commands_config.commands)
RunExecute ==
    /\ pc = "try"
    /\ \E cmds \in CommandLists :
       \E failAt \in 0..Len(Targets(cmds, device)) :
       \E e \in {"TimeoutError", "ConnectionError"} :
          LET st == ExecuteCommands(cmds, device, failAt, e)
          IN /\ (failAt = 0 => e = "TimeoutError")
             /\ commands' = cmds
             /\ sent' = st.sent
             /\ skipped' = st.skipped
             /\ outcome' = [op |-> "execute_commands", err |-> st.err, path |-> "none"]
             /\ runErr' = st.err
             /\ IF st.err = "none"
                THEN results' = st.results /\ pc' = "save"
                ELSE results' = results /\ pc' = TryExit(st.err)
    /\ trace' = <<>>
    /\ UNCHANGED <<bastions, device, session, sessions, handles, calls>>
    /\ UNCHANGED sockVars

\* timestamp = saver.save(results); the rest of the try block cannot raise.
RunSave ==
    /\ pc = "save"
    /\ \E e \in {"none", "OSError"} :
          /\ outcome' = [op |-> "save", err |-> e, path |-> "none"]
          /\ runErr' = e
          /\ pc' = TryExit(e)
    /\ trace' = <<>>
    /\ UNCHANGED <<bastions, device, session, sessions, handles, calls,
                   commands, sent, skipped, results>>
    /\ UNCHANGED sockVars

\* finally: manager.disconnect(), then the return or the pending exception.
RunFinally ==
    /\ pc = "finally"
    /\ \E failing \in CloseFaults : ManagerDisconnect(failing)
    /\ calls' = calls + 1
    /\ pc' = IF runErr = "none" THEN "returned" ELSE "raised"
    /\ UNCHANGED <<bastions, device, commands, sent, skipped, results, runErr>>
    /\ UNCHANGED sockVars

-----------------------------------------------------------------------------

\* No TelnetSocket activity.
IdleCall == [phase |-> "idle"]
NoProbe == [text |-> <<>>, pattern |-> "none", matched |-> FALSE]

SockIdle ==
    /\ wire = <<>>
    /\ rcvd = <<>>
    /\ buffer = <<>>
    /\ sentBytes = <<>>
    /\ call = IdleCall
    /\ probe = NoProbe

Init ==
    /\ SockIdle
    /\ bastions \in SeqsUpTo(BastionProtocols, MaxBastions)
    /\ device \in [protocol : DeviceProtocols, vendor : DeviceVendors,
                   enable_password : BOOLEAN]
    /\ session = 0
    /\ sessions = <<>>
    /\ handles = <<>>
    /\ trace = <<>>
    /\ outcome = [op |-> "none", err |-> "none", path |-> "none"]
    /\ calls = 0
    /\ pc = "idle"
    /\ commands = <<>>
    /\ sent = <<>>
    /\ skipped = <<>>
    /\ results = <<>>
    /\ runErr = "none"

Next ==
    \/ Connect
    \/ Disconnect
    \/ RunConnect
    \/ RunExecute
    \/ RunSave
    \/ RunFinally

Spec == Init /\ [][Next]_vars

-----------------------------------------------------------------------------
\* TelnetSocket: negotiation bytes

IAC == 255
DONT == 254
DO == 253
WONT == 252
WILL == 251
SB == 250
SE == 240

\* data.find(bytes([_IAC, _SE]), k): the first index from k on where IAC SE
\* starts, 0 when there is none (indices are 1-based here).
RECURSIVE FindIacSe(_, _)
FindIacSe(data, k) ==
    IF k + 1 > Len(data) THEN 0
    ELSE IF data[k] = IAC /\ data[k + 1] = SE THEN k
    ELSE FindIacSe(data, k + 1)

\* The least element of a non-empty set of indices.
First(S) == CHOOSE k \in S : \A m \in S : k <= m

\* Where the run of non-IAC bytes that starts at i ends: the index of the
\* next IAC, Len(data) + 1 when there is none.
PlainRunEnd(data, i) ==
    LET iacs == {k \in i..Len(data) : data[k] = IAC}
    IN IF iacs = {} THEN Len(data) + 1 ELSE First(iacs)

\* The while loop of _process_iac over one chunk; st is [result, sent].
\* The iterations over a run of non-IAC bytes, each appending its byte, are
\* taken together.
RECURSIVE IacLoop(_, _, _)
IacLoop(data, i, st) ==
    IF i > Len(data) THEN st
    ELSE IF data[i] # IAC
    THEN IacLoop(data, PlainRunEnd(data, i),
                 [st EXCEPT !.result = @ \o SubSeq(data, i, PlainRunEnd(data, i) - 1)])
    ELSE IF i + 1 > Len(data)
    THEN IacLoop(data, i + 1, st)
    ELSE LET cmd == data[i + 1]
         IN IF cmd \in {WILL, WONT, DO, DONT} /\ i + 2 <= Len(data)
            THEN LET opt == data[i + 2]
                     reply == IF cmd = DO THEN <<IAC, WONT, opt>>
                              ELSE IF cmd = WILL THEN <<IAC, DONT, opt>>
                              ELSE <<>>
                 IN IacLoop(data, i + 3, [st EXCEPT !.sent = @ \o reply])
            ELSE IF cmd = SB
            THEN LET end == FindIacSe(data, i + 2)
                 IN IacLoop(data, IF end # 0 THEN end + 2 ELSE Len(data) + 1, st)
            ELSE IF cmd = IAC
            THEN IacLoop(data, i + 2, [st EXCEPT !.result = Append(@, IAC)])
            ELSE IacLoop(data, i + 2, st)

\* _process_iac(data): the clean bytes and the replies sent meanwhile.
ProcessIac(data) == IacLoop(data, 1, [result |-> <<>>, sent |-> <<>>])

\* Code points used by _decode_buffer.
BEL == 7
LF == 10
CR == 13
ESC == 27
LBRACKET == 91
RBRACKET == 93
REPLACEMENT == 65533

\* bytes.decode("utf-8", errors="replace") on buffers without a complete
\* multi-byte sequence (no byte of 0x80..0xBF is ever produced here): an
\* ASCII byte is its own code point, every other byte becomes U+FFFD.
Utf8Decode(buf) == [i \in 1..Len(buf) |-> IF buf[i] < 128 THEN buf[i] ELSE REPLACEMENT]

IsLetter(c) == c \in 65..90 \/ c \in 97..122
IsParam(c) == c \in 48..57 \/ c = 59

\* [0-9;]* from k: the first index that is not a digit or a semicolon.
RECURSIVE SkipParams(_, _)
SkipParams(t, k) == IF k <= Len(t) /\ IsParam(t[k]) THEN SkipParams(t, k + 1) ELSE k

\* [^\x07]*\x07 from k: the index of the first BEL, 0 when there is none.
RECURSIVE FindBel(_, _)
FindBel(t, k) ==
    IF k > Len(t) THEN 0 ELSE IF t[k] = BEL THEN k ELSE FindBel(t, k + 1)

\* _ANSI_ESC matched at i: the index of the last character of the match,
\* 0 when the pattern does not match there.
AnsiEnd(t, i) ==
    IF t[i] # ESC \/ i + 1 > Len(t) THEN 0
    ELSE IF t[i + 1] = LBRACKET
    THEN LET k == SkipParams(t, i + 2)
         IN IF k <= Len(t) /\ IsLetter(t[k]) THEN k ELSE 0
    ELSE IF t[i + 1] = RBRACKET THEN FindBel(t, i + 2)
    ELSE 0

\* _ANSI_ESC.sub("", text) from i on: the text up to the leftmost match is
\* kept, the match is dropped, and the scan goes on behind it.
RECURSIVE StripAnsi(_, _)
StripAnsi(t, i) ==
    LET starts == {k \in i..Len(t) : AnsiEnd(t, k) # 0}
    IN IF starts = {} THEN SubSeq(t, i, Len(t))
       ELSE SubSeq(t, i, First(starts) - 1)
            \o StripAnsi(t, AnsiEnd(t, First(starts)) + 1)

\* text.replace("\r\n", "\n").replace("\r", "\n"): the CR of every CR LF
\* pair goes, every other CR becomes LF.
NormalizeNewlines(t) ==
    LET Dropped == 0
        marked == [i \in 1..Len(t) |->
                     IF t[i] = CR /\ i < Len(t) /\ t[i + 1] = LF THEN Dropped
                     ELSE IF t[i] = CR THEN LF
                     ELSE t[i]]
        Kept(c) == c # Dropped
    IN SelectSeq(marked, Kept)

\* _decode_buffer() on a buffer holding buf.
DecodeBuffer(buf) == NormalizeNewlines(StripAnsi(Utf8Decode(buf), 1))

\* self._buffer += self._process_iac(chunk) for a chunk that recv returned.
Receive(chunk) ==
    LET st == ProcessIac(chunk)
    IN /\ rcvd' = rcvd \o chunk
       /\ buffer' = buffer \o st.result
       /\ sentBytes' = sentBytes \o st.sent

\* chunk = self._sock.recv(_READ_CHUNK) returning the first n bytes the peer
\* has sent, then self._buffer += self._process_iac(chunk).
RecvInto(n) ==
    /\ wire' = SubSeq(wire, n + 1, Len(wire))
    /\ Receive(SubSeq(wire, 1, n))

\* Bytes the peer may send: the negotiation codes, an option byte, a letter.
StreamBytes == {IAC, DONT, DO, WONT, WILL, SB, SE, 1, 97}

\* The manager is not involved.
MgrIdle ==
    /\ bastions = <<>>
    /\ device = [protocol |-> "telnet", vendor |-> "juniper", enable_password |-> FALSE]
    /\ session = 0
    /\ sessions = <<>>
    /\ handles = <<>>
    /\ trace = <<>>
    /\ outcome = [op |-> "none", err |-> "none", path |-> "none"]
    /\ calls = 0
    /\ pc = "idle"
    /\ commands = <<>>
    /\ sent = <<>>
    /\ skipped = <<>>
    /\ results = <<>>
    /\ runErr = "none"

InitIac ==
    /\ MgrIdle
    /\ wire \in SeqsUpTo(StreamBytes, MaxStream)
    /\ rcvd = <<>>
    /\ buffer = <<>>
    /\ sentBytes = <<>>
    /\ call = IdleCall
    /\ probe = NoProbe

Recv ==
    /\ \E n \in 1..Len(wire) : RecvInto(n)
    /\ UNCHANGED <<call, probe>>
    /\ UNCHANGED mgrVars

NextIac == Recv

SpecIac == InitIac /\ [][NextIac]_vars

-----------------------------------------------------------------------------
\* Prompt patterns as read_until compiles and searches them

\* \s on the characters that occur here.
IsSpace(c) == c \in {9, 10, 11, 12, 13, 32}

\* [a-zA-Z0-9._@-]
IsHostChar(c) == IsLetter(c) \/ c \in 48..57 \/ c \in {46, 95, 64, 45}

\* VENDOR_PROMPT: the final character class and whether a host name precedes it.
PromptPatterns == {"juniper", "cisco", "generic"}
PromptChars(pattern) ==
    CASE pattern = "juniper" -> {62, 35, 37}
      [] pattern = "cisco" -> {62, 35}
      [] pattern = "generic" -> {36, 35, 62, 37}
      [] pattern = "shell" -> {36, 35, 62, 37}
      [] pattern = "hash" -> {35}
NeedsHost(pattern) == pattern \in {"juniper", "cisco"}

\* VENDOR_PROMPT.get(device.vendor.lower(), VENDOR_PROMPT["generic"])
VendorPrompt(vendor) ==
    IF Lower(vendor) \in {"juniper", "cisco"} THEN Lower(vendor) ELSE "generic"

\* Faulty variant: $ without re.MULTILINE (end of text, or before a final newline).
DollarEndOnly(text, k) ==
    k = Len(text) + 1 \/ (k = Len(text) /\ text[k] = LF)

\* $ at position k of text under re.MULTILINE: the end of the text or just
\* before a newline.
Dollar(text, k) ==
    k = Len(text) + 1 \/ (k <= Len(text) /\ text[k] = LF)

\* \s*$ from position k.
TailMatches(text, k) ==
    \E j \in k..(Len(text) + 1) :
        /\ \A i \in k..(j - 1) : IsSpace(text[i])
        /\ Dollar(text, j)

\* pat.search(text) for one compiled prompt pattern.
Search(pattern, text) ==
    \E p \in 1..Len(text) :
        /\ text[p] \in PromptChars(pattern)
        /\ NeedsHost(pattern) => (p > 1 /\ IsHostChar(text[p - 1]))
        /\ TailMatches(text, p + 1)

\* Characters of the accumulated text: h > # % $ space newline.
TextChars == {104, 62, 35, 37, 36, 32, 10}
Vendors == {"juniper", "cisco", "Cisco", "linux"}

InitMatch ==
    /\ MgrIdle
    /\ wire = <<>>
    /\ rcvd = <<>>
    /\ buffer = <<>>
    /\ sentBytes = <<>>
    /\ call = IdleCall
    /\ probe \in [text : SeqsUpTo(TextChars, MaxText), pattern : {"none"}, matched : {FALSE}]

\* any(pat.search(text) for pat in compiled) with the device's prompt pattern.
SearchPrompt ==
    /\ probe.pattern = "none"
    /\ \E vendor \in Vendors :
          probe' = [probe EXCEPT !.pattern = VendorPrompt(vendor),
                                 !.matched = Search(VendorPrompt(vendor), probe.text)]
    /\ UNCHANGED <<wire, rcvd, buffer, sentBytes, call>>
    /\ UNCHANGED mgrVars

NextMatch == SearchPrompt

SpecMatch == InitMatch /\ [][NextMatch]_vars

-----------------------------------------------------------------------------
\* TelnetSocket.read_until; time is counted in ticks of 0.1 s from the call.

ShortWait == 1
StableWait == 3
RecvCap == 10
TailLen == 200

Min(a, b) == IF a < b THEN a ELSE b

\* timeout arguments, in ticks; the last one exceeds the 1.0 s cap of one recv.
Timeouts == {1, 2, 11}

\* patterns arguments.
PatternLists == {{"juniper"}, {"cisco", "generic"}}

\* What one recv may return: "h", ">", CR LF, IAC WILL 1, ESC [ m, and a
\* line of TailLen + 1 letters.
LongChunk == [i \in 1..(TailLen + 1) |-> 120]
Chunks == {<<104>>, <<62>>, <<CR, LF>>, <<IAC, WILL, 1>>, <<ESC, LBRACKET, 109>>, LongChunk}

\* When within a wait of T ticks the awaited event may happen.
Delays(T) == {0, 1, T} \cap 0..T

\* any(pat.search(text) for pat in compiled)
Matches(patterns, text) == \E pat \in patterns : Search(pat, text)

\* Faulty variant: no stabilization wait.
StableEndAtOnce(t) == t

\* stable_end = time.monotonic() + _STABLE_WAIT
StableEnd(t) == t + StableWait

\* Faulty variant: the 100-character tail of the debug log.
ErrorTailShort(text) ==
    SubSeq(text, IF Len(text) > 100 THEN Len(text) - 99 ELSE 1, Len(text))

\* text[-200:]
ErrorTail(text) ==
    SubSeq(text, IF Len(text) > TailLen THEN Len(text) - TailLen + 1 ELSE 1, Len(text))

\* Faulty variant: an empty chunk is ignored, as in the stabilization loop.
OnEmptyChunkIgnored(c) == c

\* if not chunk: raise ConnectionError
OnEmptyChunk(c) == [c EXCEPT !.phase = "closed"]

InitRead ==
    /\ MgrIdle
    /\ wire = <<>>
    /\ rcvd = <<>>
    /\ buffer = <<>>
    /\ sentBytes = <<>>
    /\ call = IdleCall
    /\ probe = NoProbe

\* compiled = [...]; deadline = time.monotonic() + timeout
ReadUntil ==
    /\ call.phase = "idle"
    /\ \E timeout \in Timeouts : \E patterns \in PatternLists :
          call' = [phase |-> "main", now |-> 0, deadline |-> timeout,
                   stable_end |-> 0, patterns |-> patterns,
                   result |-> <<>>, tail |-> <<>>,
                   matched_at |-> -1, last_data |-> -1,
                   chunks |-> 0, peer_closed |-> FALSE]
    /\ UNCHANGED <<wire, rcvd, buffer, sentBytes, probe>>
    /\ UNCHANGED mgrVars

\* An iteration of the outer loop that finds a match.
MatchFound ==
    /\ call.phase = "main"
    /\ Matches(call.patterns, DecodeBuffer(buffer))
    /\ call' = [call EXCEPT !.phase = "stable",
                            !.stable_end = StableEnd(call.now),
                            !.matched_at = call.now]
    /\ UNCHANGED <<wire, rcvd, buffer, sentBytes, probe>>
    /\ UNCHANGED mgrVars

\* An iteration of the outer loop with no match and no time left.
RaiseTimeout ==
    /\ call.phase = "main"
    /\ ~Matches(call.patterns, DecodeBuffer(buffer))
    /\ call.deadline - call.now <= 0
    /\ call' = [call EXCEPT !.phase = "timeout",
                            !.tail = ErrorTail(DecodeBuffer(buffer))]
    /\ UNCHANGED <<wire, rcvd, buffer, sentBytes, probe>>
    /\ UNCHANGED mgrVars

\* An iteration of the outer loop with no match and time left: one recv
\* under settimeout(min(remaining, 1.0)) that returns data, times out, or
\* returns b"" because the peer closed.
MainRecv ==
    /\ call.phase = "main"
    /\ ~Matches(call.patterns, DecodeBuffer(buffer))
    /\ call.deadline - call.now > 0
    /\ LET wait == Min(call.deadline - call.now, RecvCap)
       IN \/ /\ call.chunks < MaxChunks
             /\ \E d \in Delays(wait) : \E chunk \in Chunks :
                   /\ Receive(chunk)
                   /\ call' = [call EXCEPT !.now = @ + d,
                                           !.last_data = call.now + d,
                                           !.chunks = @ + 1]
             /\ UNCHANGED wire
          \/ /\ call' = [call EXCEPT !.now = @ + wait]
             /\ UNCHANGED <<wire, rcvd, buffer, sentBytes>>
          \/ /\ \E d \in Delays(wait) :
                   call' = OnEmptyChunk([call EXCEPT !.now = @ + d,
                                                     !.peer_closed = TRUE])
             /\ UNCHANGED <<wire, rcvd, buffer, sentBytes>>
    /\ UNCHANGED probe
    /\ UNCHANGED mgrVars

\* An iteration of the stabilization loop: one recv under
\* settimeout(_SHORT_WAIT). Once the peer has closed, recv returns b"" at
\* once and the loop spins; a tick of spinning is one step.
StableRecv ==
    /\ call.phase = "stable"
    /\ call.now < call.stable_end
    /\ \/ /\ ~call.peer_closed
          /\ call.chunks < MaxChunks
          /\ \E d \in 0..ShortWait : \E chunk \in Chunks :
                /\ Receive(chunk)
                /\ call' = [call EXCEPT !.now = @ + d,
                                        !.stable_end = StableEnd(call.now + d),
                                        !.last_data = call.now + d,
                                        !.chunks = @ + 1]
          /\ UNCHANGED wire
       \/ /\ ~call.peer_closed
          /\ call' = [call EXCEPT !.now = @ + ShortWait]
          /\ UNCHANGED <<wire, rcvd, buffer, sentBytes>>
       \/ /\ call' = [call EXCEPT !.now = @ + 1, !.peer_closed = TRUE]
          /\ UNCHANGED <<wire, rcvd, buffer, sentBytes>>
    /\ UNCHANGED probe
    /\ UNCHANGED mgrVars

\* result = self._decode_buffer(); self._buffer = b""; return result
Return ==
    /\ call.phase = "stable"
    /\ call.now >= call.stable_end
    /\ call' = [call EXCEPT !.phase = "returned", !.result = DecodeBuffer(buffer)]
    /\ buffer' = <<>>
    /\ UNCHANGED <<wire, rcvd, sentBytes, probe>>
    /\ UNCHANGED mgrVars

NextRead ==
    \/ ReadUntil
    \/ MatchFound
    \/ RaiseTimeout
    \/ MainRecv
    \/ StableRecv
    \/ Return

SpecRead == InitRead /\ [][NextRead]_vars


-----------------------------------------------------------------------------
\* Text handling of InteractiveSession; a text is a sequence of code points.

\* The greatest element of a non-empty set of indices.
Last(S) == CHOOSE k \in S : \A m \in S : k >= m

\* Case folding of re.IGNORECASE on ASCII letters.
Fold(c) == IF c \in 65..90 THEN c + 32 ELSE c

\* lit occurs in t at index i.
OccursAt(t, i, lit) ==
    /\ i + Len(lit) - 1 <= Len(t)
    /\ \A k \in 1..Len(lit) : t[i + k - 1] = lit[k]

\* lit in t
HasSub(t, lit) == \E i \in 1..(Len(t) + 1) : OccursAt(t, i, lit)

\* str.strip()
Strip(t) ==
    LET solid == {i \in 1..Len(t) : ~IsSpace(t[i])}
    IN IF solid = {} THEN <<>> ELSE SubSeq(t, First(solid), Last(solid))

\* str.splitlines() from index s on, for texts whose only line boundary is LF
\* (_decode_buffer has turned CR LF and CR into LF).
RECURSIVE LinesFrom(_, _)
LinesFrom(t, s) ==
    IF s > Len(t) THEN <<>>
    ELSE LET breaks == {i \in s..Len(t) : t[i] = LF}
             e == IF breaks = {} THEN Len(t) + 1 ELSE First(breaks)
         IN <<SubSeq(t, s, e - 1)>> \o LinesFrom(t, e + 1)

SplitLines(t) == LinesFrom(t, 1)

\* "\n".join(lines[s:e]) with s 0-based and e exclusive, as in the source.
RECURSIVE Join(_, _, _)
Join(lines, s, e) ==
    IF s >= e THEN <<>>
    ELSE IF s + 1 = e THEN lines[s + 1]
    ELSE lines[s + 1] \o <<LF>> \o Join(lines, s + 1, e)

\* while start < len(lines) and not lines[start].strip(): start += 1
RECURSIVE SkipBlank(_, _)
SkipBlank(lines, start) ==
    IF start < Len(lines) /\ Strip(lines[start + 1]) = <<>>
    THEN SkipBlank(lines, start + 1)
    ELSE start

\* Faulty variant: at most one trailing prompt line is dropped.
DropPromptsOnce(lines, start, end, pattern) ==
    IF end > start /\ Search(pattern, Strip(lines[end])) THEN end - 1 ELSE end

\* while end > start and re.search(prompt, lines[end - 1].strip(), re.IGNORECASE): end -= 1
RECURSIVE DropPrompts(_, _, _, _)
DropPrompts(lines, start, end, pattern) ==
    IF end > start /\ Search(pattern, Strip(lines[end]))
    THEN DropPrompts(lines, start, end - 1, pattern)
    ELSE end

\* InteractiveSession._clean_output(command, raw) with self._prompt_pattern = pattern.
CleanOutput(command, raw, pattern) ==
    LET lines == SplitLines(raw)
        first == SkipBlank(lines, 0)
        start == IF first < Len(lines) /\ HasSub(lines[first + 1], Strip(command))
                 THEN first + 1 ELSE first
        end == DropPrompts(lines, start, Len(lines), pattern)
    IN Strip(Join(lines, start, end))

\* Raw texts: "s" (the command), "x", ">", space and newline, and the text
\* "show version\nJunos: 21.4R1\nhost>" of the documented example.
CleanChars == {115, 120, 62, 32, 10}
ExampleCommand == <<115, 104, 111, 119, 32, 118, 101, 114, 115, 105, 111, 110>>
ExampleRaw == ExampleCommand \o <<LF>> \o <<74, 117, 110, 111, 115, 58, 32, 50, 49, 46, 52, 82, 49>> \o <<LF>> \o <<104, 111, 115, 116, 62>>
CleanCommands == {<<115>>, ExampleCommand}

InitClean ==
    /\ MgrIdle
    /\ wire = <<>>
    /\ rcvd = <<>>
    /\ buffer = <<>>
    /\ sentBytes = <<>>
    /\ call = IdleCall
    /\ probe \in [raw : SeqsUpTo(CleanChars, MaxRaw) \cup {ExampleRaw},
                  command : CleanCommands,
                  pattern : {"none"}, out : {<<>>}]

\* return self._clean_output(command, raw)
Clean ==
    /\ probe.pattern = "none"
    /\ \E vendor \in Vendors :
          probe' = [probe EXCEPT
                      !.pattern = VendorPrompt(vendor),
                      !.out = CleanOutput(probe.command, probe.raw, VendorPrompt(vendor))]
    /\ UNCHANGED <<wire, rcvd, buffer, sentBytes, call>>
    /\ UNCHANGED mgrVars

NextClean == Clean

SpecClean == InitClean /\ [][NextClean]_vars


-----------------------------------------------------------------------------
\* The patterns InteractiveSession hands to read_until and re.search.
\* "shell" is _SHELL_PROMPT, "hash" is #\s*$, "pager" is _PAGER_PATTERN; the
\* others are named after the text they look for.

ColonPatterns == {"login", "username", "password", "password_ja"}

PatternWord(name) ==
    CASE name = "login" -> <<108, 111, 103, 105, 110>>
      [] name = "username" -> <<117, 115, 101, 114, 110, 97, 109, 101>>
      [] name = "password" -> <<112, 97, 115, 115, 119, 111, 114, 100>>
      [] name = "password_ja" -> <<12497, 12473, 12527, 12540, 12489>>
      [] name = "yes/no" -> <<121, 101, 115, 47, 110, 111>>
      [] name = "continue connecting" -> <<99, 111, 110, 116, 105, 110, 117, 101, 32, 99, 111, 110, 110, 101, 99, 116, 105, 110, 103>>
      [] name = "connection refused" -> <<99, 111, 110, 110, 101, 99, 116, 105, 111, 110, 32, 114, 101, 102, 117, 115, 101, 100>>
      [] name = "no route to host" -> <<110, 111, 32, 114, 111, 117, 116, 101, 32, 116, 111, 32, 104, 111, 115, 116>>
      [] name = "name or service not known" -> <<110, 97, 109, 101, 32, 111, 114, 32, 115, 101, 114, 118, 105, 99, 101, 32, 110, 111, 116, 32, 107, 110, 111, 119, 110>>
      [] name = "not known" -> <<110, 111, 116, 32, 107, 110, 111, 119, 110>>

\* lit occurs in t at index i, letter case ignored.
OccursAtFold(t, i, lit) ==
    /\ i + Len(lit) - 1 <= Len(t)
    /\ \A k \in 1..Len(lit) : Fold(t[i + k - 1]) = Fold(lit[k])

\* word\s*: somewhere in t.
HasWordColon(t, word) ==
    \E i \in 1..Len(t) :
        /\ OccursAtFold(t, i, word)
        /\ \E j \in (i + Len(word))..Len(t) :
              /\ t[j] = 58
              /\ \A k \in (i + Len(word))..(j - 1) : IsSpace(t[k])

\* _PAGER_PATTERN matched at i: the index of the last character of the
\* match, 0 when it does not match there.
PagerEnd(t, i) ==
    IF /\ i + 8 <= Len(t)
       /\ t[i] = 45 /\ t[i + 1] = 45 /\ t[i + 2] \in {45, 40}
       /\ OccursAtFold(t, i + 3, <<109, 111, 114, 101>>)
       /\ t[i + 7] \in {41, 45} /\ t[i + 8] = 45
    THEN LET other == {k \in (i + 8)..Len(t) : t[k] # 45}
         IN IF other = {} THEN Len(t) ELSE First(other) - 1
    ELSE IF OccursAtFold(t, i, <<60, 109, 111, 114, 101, 62>>) THEN i + 5
    ELSE IF OccursAtFold(t, i, <<40, 69, 78, 68, 41>>) THEN i + 4
    ELSE 0

\* re.sub(_PAGER_PATTERN, "", chunk, flags=re.IGNORECASE) from i on.
RECURSIVE PagerSub(_, _)
PagerSub(t, i) ==
    LET starts == {k \in i..Len(t) : PagerEnd(t, k) # 0}
    IN IF starts = {} THEN SubSeq(t, i, Len(t))
       ELSE SubSeq(t, i, First(starts) - 1)
            \o PagerSub(t, PagerEnd(t, First(starts)) + 1)

\* pat.search(text) for one pattern of the session.
PatSearch(name, text) ==
    IF name \in {"juniper", "cisco", "generic", "shell", "hash"} THEN Search(name, text)
    ELSE IF name = "pager" THEN \E i \in 1..Len(text) : PagerEnd(text, i) # 0
    ELSE IF name \in ColonPatterns THEN HasWordColon(text, PatternWord(name))
    ELSE \E i \in 1..Len(text) : OccursAtFold(text, i, PatternWord(name))

\* any(pat.search(text) for pat in compiled); re.search of an alternation.
SearchAny(patterns, text) == \E name \in patterns : PatSearch(name, text)



-----------------------------------------------------------------------------
\* InteractiveSession over a TelnetSocket, at the level of decoded text.
\* The device's answer to a write is a sequence of bursts; a burst is text
\* that arrives together and is followed by silence longer than _STABLE_WAIT.
\* A session value holds the bursts still to arrive (pending), the socket's
\* buffer (buf), the log of the writes and reads of the running method (log),
\* the value of the last read (out) and the exception that ended the method
\* (err).  A method is an operator from a session value to the set of session
\* values it can end with, one for each way the hosts can answer its writes.

\* The burst that stands for the peer closing the connection: recv returns b"".
EOF == <<0>>

Event(op, what, hop, text, pats, err, answer) ==
    [op |-> op, what |-> what, hop |-> hop, text |-> text, pats |-> pats,
     err |-> err, answer |-> answer]

\* TelnetSocket.write: the text and CRLF are sent; the answer follows what
\* the device still had to say.
SockWrite(ss, what, hop, text, reaction) ==
    [ss EXCEPT !.log = Append(@, Event("write", what, hop, text \o <<CR, LF>>, {},
                                       "none", reaction)),
               !.pending = @ \o reaction]

\* The loop of read_until: bursts are taken until the text matches; silence
\* ends in TimeoutError, a closed connection in ConnectionError.
RECURSIVE Absorb(_, _, _)
Absorb(buf, pending, patterns) ==
    IF SearchAny(patterns, buf) THEN [buf |-> buf, pending |-> pending, err |-> "none"]
    ELSE IF pending = <<>> THEN [buf |-> buf, pending |-> pending, err |-> "TimeoutError"]
    ELSE IF Head(pending) = EOF
    THEN [buf |-> buf, pending |-> pending, err |-> "ConnectionError"]
    ELSE Absorb(buf \o Head(pending), Tail(pending), patterns)

\* TelnetSocket.read_until: the matched text is returned and the buffer
\* emptied; an exception leaves the buffer as it is.
SockRead(ss, what, hop, patterns) ==
    LET r == Absorb(ss.buf, ss.pending, patterns)
    IN [pending |-> r.pending,
        buf |-> IF r.err = "none" THEN <<>> ELSE r.buf,
        log |-> Append(ss.log, Event("read", what, hop,
                                     IF r.err = "none" THEN r.buf ELSE <<>>,
                                     patterns, r.err, <<>>)),
        out |-> IF r.err = "none" THEN r.buf ELSE <<>>,
        err |-> r.err]

\* Faulty variant: a wait that times out is followed by the same write and
\* one more wait.
WriteReadAgain(ss, what, hop, text, R, wait, patterns) ==
    UNION {LET a == SockRead(SockWrite(ss, what, hop, text, r), wait, hop, patterns)
           IN IF a.err = "TimeoutError"
              THEN {SockRead(SockWrite(a, what, hop, text, q), wait, hop, patterns) : q \in R}
              ELSE {a} : r \in R}

\* A write answered in each of the ways R, then a read.
WriteRead(ss, what, hop, text, R, wait, patterns) ==
    {SockRead(SockWrite(ss, what, hop, text, r), wait, hop, patterns) : r \in R}

Raised(S) == {s \in S : s.err # "none"}
Returned(S) == {s \in S : s.err = "none"}

\* Texts the hosts send.
Says ==
    [login |-> <<108, 111, 103, 105, 110, 58, 32>>,
     password |-> <<80, 97, 115, 115, 119, 111, 114, 100, 58, 32>>,
     shell |-> <<98, 36, 32>>,
     device |-> <<104, 35, 32>>,
     hostkey |-> <<99, 111, 110, 116, 105, 110, 117, 101, 32, 99, 111, 110, 110, 101, 99, 116, 105, 110, 103, 32, 40, 121, 101, 115, 47, 110, 111, 41, 63, 32>>,
     refused |-> <<67, 111, 110, 110, 101, 99, 116, 105, 111, 110, 32, 114, 101, 102, 117, 115, 101, 100>>,
     noroute |-> <<78, 111, 32, 114, 111, 117, 116, 101, 32, 116, 111, 32, 104, 111, 115, 116>>,
     unknown |-> <<78, 97, 109, 101, 32, 111, 114, 32, 115, 101, 114, 118, 105, 99, 101, 32, 110, 111, 116, 32, 107, 110, 111, 119, 110>>,
     denied |-> <<80, 101, 114, 109, 105, 115, 115, 105, 111, 110, 32, 100, 101, 110, 105, 101, 100, 10, 80, 97, 115, 115, 119, 111, 114, 100, 58, 32>>]

\* What a bastion sends once the connection is open.
Banners == {<<>>, <<EOF>>, <<Says.login>>, <<Says.password>>, <<Says.shell>>}

\* Answers to a write made while connecting: one burst, silence, or the
\* connection closing.
DialogueReactions ==
    {<<>>, <<EOF>>} \cup
    {<<t>> : t \in {Says.login, Says.password, Says.shell, Says.device,
                    Says.hostkey, Says.refused, Says.noroute, Says.unknown, Says.denied}}

\* Credentials and address of hop i.
Account(i) == [username |-> <<117, 48 + i>>, password |-> <<112, 48 + i>>,
               host |-> <<104, 48 + i>>]
EnablePassword == <<115, 101, 99, 114, 101, 116>>

\* InteractiveSession._prompt_pattern
SessionPrompt(dev) == VendorPrompt(dev.vendor)

LoginPatterns == {"login", "username"}
PassPattern == {"password", "password_ja"}

\* Faulty variant: the password follows the user name without a wait for the
\* password prompt.
LoginShellNoWait(ss, username, password) ==
    LET a == SockRead(ss, "banner", 1, {"login", "username", "password", "shell"})
        B == IF SearchAny(LoginPatterns, a.out)
             THEN {SockWrite(a, "username", 1, username, r) : r \in DialogueReactions}
             ELSE {a}
    IN IF a.err # "none" THEN {a}
       ELSE UNION {WriteRead(b, "password", 1, password, DialogueReactions,
                             "prompt", {"shell"}) : b \in B}

\* login_shell
LoginShell(ss, username, password) ==
    LET a == SockRead(ss, "banner", 1, {"login", "username", "password", "shell"})
        B == IF SearchAny(LoginPatterns, a.out)
             THEN WriteRead(a, "username", 1, username, DialogueReactions,
                            "password_prompt", PassPattern)
             ELSE {a}
    IN IF a.err # "none" THEN {a}
       ELSE Raised(B) \cup
            UNION {WriteRead(b, "password", 1, password, DialogueReactions,
                             "prompt", {"shell"}) : b \in Returned(B)}

\* The command line ssh_to builds for the default port.
SshCommand(username, host) ==
    <<115, 115, 104, 32, 45, 111, 32, 83, 116, 114, 105, 99, 116, 72, 111, 115, 116, 75, 101, 121, 67, 104, 101, 99, 107, 105, 110, 103, 61, 110, 111, 32, 45, 111, 32, 85, 115, 101, 114, 75, 110, 111, 119, 110, 72, 111, 115, 116, 115, 70, 105, 108, 101, 61, 47, 100, 101, 118, 47, 110, 117, 108, 108, 32, 45, 111, 32, 67, 111, 110, 110, 101, 99, 116, 84, 105, 109, 101, 111, 117, 116, 61, 49, 48, 32>>
    \o username \o <<64>> \o host

\* Faulty variant: only a refused connection is taken for a failure.
SshFailuresRefusedOnly == {"connection refused"}

\* re.search(r"[Cc]onnection refused|[Nn]o route to host|not known", output, re.IGNORECASE)
SshFailures == {"connection refused", "no route to host", "not known"}
HostKeyQuestions == {"yes/no", "continue connecting"}

\* Faulty variant: the password follows the "yes" without a wait for the
\* password prompt.
SshAnsweredNoWait(a, hop, pattern) ==
    LET B == IF SearchAny(HostKeyQuestions, a.out)
             THEN {SockWrite(a, "yes", hop, <<121, 101, 115>>, r) : r \in DialogueReactions}
             ELSE {a}
    IN IF SearchAny(SshFailures, a.out) THEN {[a EXCEPT !.err = "ConnectionError"]}
       ELSE UNION {WriteRead(b, "password", hop, Account(hop).password, DialogueReactions,
                             "prompt", {pattern}) : b \in B}

\* What ssh_to does with the text a that answered the ssh command.
SshAnswered(a, hop, pattern) ==
    LET B == IF SearchAny(HostKeyQuestions, a.out)
             THEN WriteRead(a, "yes", hop, <<121, 101, 115>>, DialogueReactions,
                            "password_prompt", {"password"})
             ELSE {a}
    IN IF SearchAny(SshFailures, a.out) THEN {[a EXCEPT !.err = "ConnectionError"]}
       ELSE Raised(B) \cup
            UNION {WriteRead(b, "password", hop, Account(hop).password, DialogueReactions,
                             "prompt", {pattern}) : b \in Returned(B)}

\* ssh_to
SshTo(ss, hop, pattern) ==
    LET A == WriteRead(ss, "hop_command", hop, SshCommand(Account(hop).username, Account(hop).host),
                       DialogueReactions, "answer",
                       {"password", "yes/no", "continue connecting", "connection refused",
                        "no route to host", "name or service not known"})
    IN Raised(A) \cup UNION {SshAnswered(a, hop, pattern) : a \in Returned(A)}

\* The command line telnet_to builds for the default port.
TelnetCommand(host) == <<116, 101, 108, 110, 101, 116, 32>> \o host \o <<32, 50, 51>>

\* What telnet_to does with the text a that answered the telnet command.
TelnetAnswered(a, hop, pattern) ==
    LET B == IF SearchAny(LoginPatterns, a.out)
             THEN WriteRead(a, "username", hop, Account(hop).username, DialogueReactions,
                            "password_prompt", {"password"})
             ELSE {a}
    IN IF SearchAny({"connection refused"}, a.out)
       THEN {[a EXCEPT !.err = "ConnectionError"]}
       ELSE Raised(B) \cup
            UNION {WriteRead(b, "password", hop, Account(hop).password, DialogueReactions,
                             "prompt", {pattern}) : b \in Returned(B)}

\* telnet_to
TelnetTo(ss, hop, pattern) ==
    LET A == WriteRead(ss, "hop_command", hop, TelnetCommand(Account(hop).host),
                       DialogueReactions, "answer",
                       {"login", "username", "password", "connection refused"})
    IN Raised(A) \cup UNION {TelnetAnswered(a, hop, pattern) : a \in Returned(A)}

\* The branch of _connect_with_telnet on a hop's protocol.
HopTo(ss, hop, protocol, pattern) ==
    IF HopOp(protocol) = "ssh_to" THEN SshTo(ss, hop, pattern)
    ELSE TelnetTo(ss, hop, pattern)

\* DISABLE_PAGER_CMD.get(vendor.lower()); the empty text stands for None.
DisablePagerCmd(vendor) ==
    CASE Lower(vendor) = "juniper" -> <<115, 101, 116, 32, 99, 108, 105, 32, 115, 99, 114, 101, 101, 110, 45, 108, 101, 110, 103, 116, 104, 32, 48>>
      [] Lower(vendor) = "cisco" -> <<116, 101, 114, 109, 105, 110, 97, 108, 32, 108, 101, 110, 103, 116, 104, 32, 48>>
      [] OTHER -> <<>>

\* _enable_cisco
EnableCisco(ss, hop) ==
    LET A == WriteRead(ss, "enable", hop, <<101, 110, 97, 98, 108, 101>>, DialogueReactions,
                       "password_prompt", {"password"})
    IN Raised(A) \cup
       UNION {WriteRead(a, "secret", hop, EnablePassword, DialogueReactions,
                        "prompt", {"hash"}) : a \in Returned(A)}

\* Faulty variant: the escalation comes before the pager is disabled.
SetupDeviceEnableFirst(ss, hop, dev) ==
    LET A == IF Lower(dev.vendor) = "cisco" /\ dev.enable_password
             THEN EnableCisco(ss, hop) ELSE {ss}
    IN Raised(A) \cup
       UNION {IF DisablePagerCmd(dev.vendor) # <<>>
              THEN WriteRead(a, "pager_off", hop, DisablePagerCmd(dev.vendor),
                             DialogueReactions, "prompt", {SessionPrompt(dev)})
              ELSE {a} : a \in Returned(A)}

\* setup_device
SetupDevice(ss, hop, dev) ==
    LET A == IF DisablePagerCmd(dev.vendor) # <<>>
             THEN WriteRead(ss, "pager_off", hop, DisablePagerCmd(dev.vendor),
                            DialogueReactions, "prompt", {SessionPrompt(dev)})
             ELSE {ss}
    IN Raised(A) \cup
       UNION {IF Lower(dev.vendor) = "cisco" /\ dev.enable_password
              THEN EnableCisco(a, hop) ELSE {a} : a \in Returned(A)}

\* Command i is one letter and its output lines are that letter in capitals.
CommandText(i) == <<119 + i>>
OutputLine(i) == <<87 + i>>

\* What the device sends for command i: the echo, a line of output and the
\* prompt at once (whole); the rest of an output and the prompt (rest); an
\* output that stops after a line that ends like a prompt (halted); a page
\* that ends with a pager marker (page, pageline, morepage).
Emits(i) ==
    [whole |-> CommandText(i) \o <<LF>> \o OutputLine(i) \o <<LF>> \o Says.device,
     rest |-> OutputLine(i) \o <<LF>> \o Says.device,
     halted |-> CommandText(i) \o <<LF>> \o OutputLine(i) \o <<35, LF>>,
     page |-> OutputLine(i) \o <<LF>> \o <<60, 109, 111, 114, 101, 62>>,
     pageline |-> OutputLine(i) \o <<LF>> \o <<45, 45, 45, 40, 109, 111, 114, 101, 41, 45, 45, 45, 10>>,
     morepage |-> OutputLine(i) \o <<LF>> \o <<45, 45, 77, 111, 114, 101, 45, 45, 10>>]

\* Answers to command i or to a continuation keystroke.
CommandReactions(i) ==
    {<<>>, <<EOF>>, <<Emits(i).whole>>, <<Emits(i).rest>>, <<Emits(i).halted, Emits(i).rest>>,
     <<Emits(i).page>>, <<Emits(i).pageline>>, <<Emits(i).morepage>>}

\* The while loop of send_command; after n answered keystrokes the device
\* stays silent.  The value is the session and the joined raw_parts.
RECURSIVE PageLoop(_, _, _, _, _, _)
PageLoop(ss, hop, pattern, R, n, parts) ==
    LET a == SockRead(ss, "output", hop, {pattern, "pager"})
    IN IF a.err # "none" THEN {[ss |-> a, raw |-> parts]}
       ELSE IF PatSearch("pager", a.out)
       THEN UNION {PageLoop(SockWrite(a, "space", hop, <<32>>, r), hop, pattern, R,
                            n - 1, parts \o PagerSub(a.out, 1)) :
                      r \in IF n > 0 THEN R ELSE {<<>>}}
       ELSE {[ss |-> a, raw |-> parts \o a.out]}

\* send_command: the value's out is the cleaned output when err is "none".
SendCommand(ss, hop, command, pattern, R) ==
    LET ends == UNION {PageLoop(SockWrite(ss, "command", hop, command, r), hop,
                                pattern, R, MaxPages, <<>>) : r \in R}
    IN {IF r.ss.err # "none" THEN r.ss
        ELSE [r.ss EXCEPT !.out = CleanOutput(command, r.raw, pattern)] : r \in ends}

-----------------------------------------------------------------------------
\* The walk of _connect_with_telnet and execute_commands through the
\* session's methods.  trace is the log of the method that ran last, sent the
\* writes of connect() so far and then those of execute_commands.

SessionBastions ==
    {bs \in SeqsUpTo({"telnet", "ssh"}, MaxBastions) :
        bs # <<>> /\ FindFirstTelnetIdx(bs) = 0}
SessionDevices ==
    {[protocol |-> "ssh", vendor |-> "juniper", enable_password |-> TRUE],
     [protocol |-> "telnet", vendor |-> "Cisco", enable_password |-> TRUE],
     [protocol |-> "SSH", vendor |-> "cisco", enable_password |-> FALSE],
     [protocol |-> "telnet", vendor |-> "linux", enable_password |-> FALSE]}

Session == [pending |-> wire, buf |-> buffer, log |-> <<>>, out |-> <<>>, err |-> "none"]

\* The writes of a log, as what was written for which hop.
Written(log) ==
    LET w == SelectSeq(log, LAMBDA e : e.op = "write")
    IN [k \in 1..Len(w) |-> [what |-> w[k].what, hop |-> w[k].hop, text |-> w[k].text]]

\* One method of the session ends with ss; next is where the caller goes on.
Step(op, hop, ss, next) ==
    /\ wire' = ss.pending
    /\ buffer' = ss.buf
    /\ trace' = ss.log
    /\ call' = [phase |-> "session", op |-> op, hop |-> hop, result |-> ss.out,
                stale |-> wire # <<>> \/ buffer # <<>>]
    /\ outcome' = [op |-> op, err |-> ss.err, path |-> "interactive"]
    /\ pc' = IF ss.err = "none" THEN next ELSE "raised"

\* TelnetSocket.open succeeded and the first bastion sends its banner.
InitSession ==
    /\ bastions \in SessionBastions
    /\ device \in SessionDevices
    /\ session = 0
    /\ sessions = <<>>
    /\ handles = <<>>
    /\ trace = <<>>
    /\ outcome = [op |-> "none", err |-> "none", path |-> "interactive"]
    /\ calls = 1
    /\ pc = "login_shell"
    /\ commands = [i \in 1..MaxCommands |-> i]
    /\ sent = <<>>
    /\ skipped = <<>>
    /\ results = <<>>
    /\ runErr = "none"
    /\ wire \in Banners
    /\ rcvd = <<>>
    /\ buffer = <<>>
    /\ sentBytes = <<>>
    /\ call = [phase |-> "session", op |-> "open", hop |-> 1, result |-> <<>>,
               stale |-> FALSE]
    /\ probe = NoProbe

Kept == <<bastions, device, session, sessions, handles, commands, skipped,
          runErr, rcvd, sentBytes, probe>>

\* session.login_shell(first_bastion.username, first_bastion.password)
SessLoginShell ==
    /\ pc = "login_shell"
    /\ \E ss \in LoginShell(Session, Account(1).username, Account(1).password) :
          /\ Step("login_shell", 1, ss, IF Len(bastions) > 1 THEN "hop" ELSE "device")
          /\ sent' = sent \o Written(ss.log)
    /\ calls' = 2
    /\ UNCHANGED <<Kept, results>>

\* for hop in self.bastions[1:]
SessHop ==
    /\ pc = "hop"
    /\ \E ss \in HopTo(Session, calls, bastions[calls], SessionPrompt(device)) :
          /\ Step(HopOp(bastions[calls]), calls, ss,
                  IF calls < Len(bastions) THEN "hop" ELSE "device")
          /\ sent' = sent \o Written(ss.log)
    /\ calls' = calls + 1
    /\ UNCHANGED <<Kept, results>>

\* The connection to the device itself.
SessDevice ==
    /\ pc = "device"
    /\ \E ss \in HopTo(Session, calls, device.protocol, SessionPrompt(device)) :
          /\ Step(HopOp(device.protocol), calls, ss, "setup_device")
          /\ sent' = sent \o Written(ss.log)
    /\ UNCHANGED <<Kept, results, calls>>

\* session.setup_device(), the last call of connect().
SessSetupDevice ==
    /\ pc = "setup_device"
    /\ \E ss \in SetupDevice(Session, calls, device) :
          /\ Step("setup_device", calls, ss, "connected")
          /\ sent' = sent \o Written(ss.log)
    /\ UNCHANGED <<Kept, results, calls>>

\* execute_commands begins on the connected session.
SessExecute ==
    /\ pc = "connected"
    /\ pc' = "execute"
    /\ sent' = <<>>
    /\ trace' = <<>>
    /\ call' = [phase |-> "session", op |-> "execute_commands", hop |-> calls,
                result |-> <<>>, stale |-> FALSE]
    /\ UNCHANGED <<Kept, results, calls, wire, buffer, outcome>>

\* One turn of the loop of execute_commands: _execute_one, send_command.
SessSendCommand ==
    /\ pc = "execute"
    /\ Len(results) < Len(commands)
    /\ LET i == Len(results) + 1
       IN \E ss \in SendCommand(Session, calls, CommandText(i), SessionPrompt(device),
                                CommandReactions(i)) :
             /\ Step("send_command", calls, ss, "execute")
             /\ sent' = sent \o Written(ss.log)
             /\ results' = IF ss.err = "none" THEN Append(results, ss.out) ELSE results
    /\ UNCHANGED <<Kept, calls>>

NextSession ==
    \/ SessLoginShell
    \/ SessHop
    \/ SessDevice
    \/ SessSetupDevice
    \/ SessExecute
    \/ SessSendCommand

SpecSession == InitSession /\ [][NextSession]_vars


-----------------------------------------------------------------------------
\* send_command with time.  A burst of the device is [after, text]: text that
\* arrives `after` ticks after the burst before it (or after the write it
\* answers).  The loop of send_command is followed one read cycle at a time;
\* the time the stabilization loop of read_until takes is not counted.

Burst(after, text) == [after |-> after, text |-> text]

\* The stabilization loop of read_until: what arrives sooner than
\* _STABLE_WAIT after the match or after the last arrival joins the text; an
\* empty chunk is passed over.
RECURSIVE TimedSettle(_, _, _)
TimedSettle(buf, pending, spent) ==
    IF pending # <<>> /\ Head(pending).after < StableWait /\ Head(pending).text # EOF
    THEN TimedSettle(buf \o Head(pending).text, Tail(pending), spent + Head(pending).after)
    ELSE [buf |-> buf,
          pending |-> IF pending = <<>> THEN <<>>
                      ELSE <<Burst(IF Head(pending).after < StableWait THEN 0
                                   ELSE Head(pending).after - StableWait,
                                   Head(pending).text)>> \o Tail(pending),
          spent |-> spent + StableWait]

\* read_until(patterns, timeout) from the cycle's own start: left is the time
\* to its deadline, waited the time since its start.  A burst is received
\* only if it arrives before the deadline; after a match the text settles.
RECURSIVE TimedAbsorb(_, _, _, _, _)
TimedAbsorb(buf, pending, patterns, left, waited) ==
    IF SearchAny(patterns, buf)
    THEN LET s == TimedSettle(buf, pending, waited)
         IN [buf |-> s.buf, pending |-> s.pending, err |-> "none",
             waited |-> waited, spent |-> s.spent]
    ELSE IF pending = <<>>
    THEN [buf |-> buf, pending |-> pending, err |-> "TimeoutError",
          waited |-> waited + left, spent |-> waited + left]
    ELSE IF Head(pending).after >= left
    THEN [buf |-> buf,
          pending |-> <<Burst(Head(pending).after - left, Head(pending).text)>>
                      \o Tail(pending),
          err |-> "TimeoutError", waited |-> waited + left, spent |-> waited + left]
    ELSE IF Head(pending).text = EOF
    THEN [buf |-> buf, pending |-> pending, err |-> "ConnectionError",
          waited |-> waited + Head(pending).after,
          spent |-> waited + Head(pending).after]
    ELSE TimedAbsorb(buf \o Head(pending).text, Tail(pending), patterns,
                     left - Head(pending).after, waited + Head(pending).after)

\* read_until(patterns, timeout) with `left` ticks to its deadline: the
\* session after it, the time it waited for a match (waited), the time it
\* took (spent) and the text it read (got, also when it raised).
TimedRead(ss, hop, patterns, left) ==
    LET a == TimedAbsorb(ss.buf, ss.pending, patterns, left, 0)
    IN [ss |-> [pending |-> a.pending,
                buf |-> IF a.err = "none" THEN <<>> ELSE a.buf,
                log |-> Append(ss.log, Event("read", "output", hop, a.buf, patterns,
                                             a.err, <<>>)),
                out |-> IF a.err = "none" THEN a.buf ELSE <<>>,
                err |-> a.err],
        waited |-> a.waited, spent |-> a.spent, got |-> a.buf]

\* The two branches after read_until in send_command: with more, the marker
\* is taken out of the chunk and a space written (answered by r); without,
\* the chunk is kept whole and the loop ends.
Branch(c, hop, more, r) ==
    [ss |-> IF more THEN SockWrite(c.ss, "space", hop, <<32>>, r) ELSE c.ss,
     part |-> IF more THEN PagerSub(c.got, 1) ELSE c.ss.out,
     more |-> more, waited |-> c.waited, spent |-> c.spent, got |-> c.got]

\* Faulty variant: one deadline for the whole command, which began at 0.
TimedCycleOneDeadline(ss, hop, pattern, timeout, now, r) ==
    LET c == TimedRead(ss, hop, {pattern, "pager"}, timeout - now)
    IN Branch(c, hop, c.ss.err = "none" /\ PatSearch("pager", c.got), r)

\* Faulty variant: a text that ends with the prompt ends the loop, with or
\* without a pager marker.
TimedCyclePromptFirst(ss, hop, pattern, timeout, now, r) ==
    LET c == TimedRead(ss, hop, {pattern, "pager"}, (now + timeout) - now)
    IN Branch(c, hop, /\ c.ss.err = "none"
                      /\ PatSearch("pager", c.got)
                      /\ ~PatSearch(pattern, c.got), r)

\* One turn of the while loop of send_command at time now: read_until sets
\* its deadline to now + timeout; if the text holds a pager marker the loop
\* goes on.
TimedCycle(ss, hop, pattern, timeout, now, r) ==
    LET c == TimedRead(ss, hop, {pattern, "pager"}, (now + timeout) - now)
    IN Branch(c, hop, c.ss.err = "none" /\ PatSearch("pager", c.got), r)

\* The timeout argument of send_command, in ticks.
CommandTimeouts == {2, 3}

\* Answers to command i or to a continuation keystroke, with their times
\* in ticks of _SHORT_WAIT: nothing, a closed connection, the whole output,
\* the output late or in two parts, a page, a page late, and a page with the
\* rest of the output and the prompt close behind it.
TimedReactions(i) ==
    {<<>>, <<Burst(1, EOF)>>,
     <<Burst(1, Emits(i).whole)>>, <<Burst(2, Emits(i).rest)>>,
     <<Burst(1, OutputLine(i) \o <<LF>>), Burst(1, Emits(i).rest)>>,
     <<Burst(1, Emits(i).page)>>, <<Burst(2, Emits(i).page)>>,
     <<Burst(1, Emits(i).page), Burst(2, Emits(i).rest)>>}

\* A connected session; send_command(CommandText(1), timeout) has written the
\* command and the device has its answer.
InitPaging ==
    /\ bastions = <<"telnet">>
    /\ device \in SessionDevices
    /\ session = 0
    /\ sessions = <<>>
    /\ handles = <<>>
    /\ wire \in TimedReactions(1)
    /\ trace = <<Event("write", "command", 2, CommandText(1) \o <<CR, LF>>, {},
                       "none", wire)>>
    /\ outcome = [op |-> "send_command", err |-> "none", path |-> "interactive"]
    /\ calls = 2
    /\ pc = "cycle"
    /\ commands = <<1>>
    /\ sent = <<>>
    /\ skipped = <<>>
    /\ results = <<>>
    /\ runErr = "none"
    /\ rcvd = <<>>
    /\ buffer = <<>>
    /\ sentBytes = <<>>
    /\ call \in [phase : {"paging"}, timeout : CommandTimeouts, now : {0}, waited : {0},
                 spent : {0}, cycles : {0}, parts : {<<>>}, got : {<<>>}]
    /\ probe = NoProbe

\* chunk = read_until(...); the pager branch or the break (and the return).
ReadCycle ==
    /\ pc = "cycle"
    /\ call.cycles < MaxCycles
    /\ \E r \in TimedReactions(1) :
          LET c == TimedCycle(Session, calls, SessionPrompt(device), call.timeout,
                              call.now, r)
              parts == call.parts \o c.part
          IN /\ wire' = c.ss.pending
             /\ buffer' = c.ss.buf
             /\ trace' = trace \o c.ss.log
             /\ call' = [call EXCEPT !.now = @ + c.spent, !.waited = c.waited,
                                     !.spent = c.spent,
                                     !.cycles = @ + 1, !.parts = parts, !.got = c.got]
             /\ outcome' = [outcome EXCEPT !.err = c.ss.err]
             /\ pc' = IF c.ss.err # "none" THEN "raised"
                      ELSE IF c.more THEN "cycle" ELSE "returned"
             /\ results' = IF c.ss.err = "none" /\ ~c.more
                           THEN <<CleanOutput(CommandText(1), parts, SessionPrompt(device))>>
                           ELSE results
    /\ UNCHANGED <<Kept, sent, calls>>

NextPaging == ReadCycle

SpecPaging == InitPaging /\ [][NextPaging]_vars

-----------------------------------------------------------------------------
\* Properties

IsLegacy(protocol) == protocol \in {"telnet", "Telnet"}

\* The sessions on which disconnect() has never been called.
LiveSessions == {n \in DOMAIN sessions : sessions[n].disconnects = 0}

\* The commands of the batch whose vendor filter admits the device.
Applicable ==
    SelectSeq(commands, LAMBDA c : c.vendor = None \/ Lower(c.vendor) = Lower(device.vendor))

ConnectEnded == outcome.op = "connect"
DisconnectEnded == outcome.op = "disconnect"
ExecuteFailed == outcome.op = "execute_commands" /\ outcome.err # "none"

\* C1: when NetmikoSession.build fails at the client.connect of hop k, every
\* client connected for hops 1..k-1 has been closed exactly once by the time
\* the error reaches the caller, and the error is the one hop k raised.
C1_BuildFailureClosesOpenedHops ==
    (/\ ConnectEnded
     /\ outcome.path = "netmiko"
     /\ trace # <<>>
     /\ trace[Len(trace)].op = "client.connect"
     /\ ~trace[Len(trace)].ok)
    => /\ outcome.err \in {"AuthenticationException", "SocketError"}
       /\ \A j \in 1..Len(trace) :
            (trace[j].op = "client.connect" /\ trace[j].ok)
                => handles[trace[j].h].closes = 1

\* C2: when connect() fails on the Interactive path after TelnetSocket.open
\* succeeded, the socket it opened is closed when the error reaches the caller.
C2_InteractiveFailureClosesSocket ==
    (/\ ConnectEnded
     /\ outcome.path = "interactive"
     /\ outcome.err # "none"
     /\ trace # <<>>
     /\ trace[1].op = "telnet.open"
     /\ trace[1].ok)
    => ~handles[trace[1].h].open

\* C3: when send_command raises on the k-th applicable command, the caller
\* holds the CommandResults of applicable commands 1..k-1 together with the
\* error.
C3_PartialResultsDelivered ==
    ExecuteFailed
    => /\ Len(results) = Len(sent) - 1
       /\ \A j \in 1..Len(results) : results[j].command_name = sent[j].name

\* C4: once connect() has returned successfully inside NetCollector.run,
\* every exit of run (return or exception) happens after manager.disconnect()
\* ran: the session it built has been disconnected and the manager holds none.
C4_RunAlwaysDisconnects ==
    (pc \in {"returned", "raised"} /\ sessions # <<>>)
    => /\ DisconnectEnded
       /\ sessions[1].disconnects = 1
       /\ session = 0

\* C4 witness: run left by an exception of execute_commands or save after a
\* successful connect.
C4_Witness ==
    /\ pc = "raised"
    /\ sessions # <<>>
    /\ runErr \in {"TimeoutError", "ConnectionError", "OSError"}

\* C5: at most one Session built by the manager is still connected after any
\* sequence of connect()/disconnect() calls, and none after a disconnect().
C5_AtMostOneLiveSession ==
    /\ Cardinality(LiveSessions) <= 1
    /\ (DisconnectEnded => LiveSessions = {})

\* C6: disconnect() never raises and leaves the manager without a Session;
\* the first call after a successful connect() disconnects the Session that
\* connect() built exactly once, and any other call (before any connect, after
\* a failed first connect, or repeated) touches no Session and no handle.
C6_DisconnectIdempotent ==
    [][(outcome'.op = "disconnect" /\ calls' = calls + 1)
        => LET n == Len(sessions)
           IN /\ outcome'.err = "none"
              /\ session' = 0
              /\ IF n > 0 /\ sessions[n].disconnects = 0
                 THEN /\ sessions' = [sessions EXCEPT ![n].disconnects = 1]
                      /\ trace' # <<>>
                      /\ \A j \in 1..Len(trace') :
                            trace'[j].h \in {sessions[n].conn}
                                \cup {sessions[n].clients[i] : i \in 1..Len(sessions[n].clients)}
                 ELSE /\ sessions' = sessions
                      /\ handles' = handles
                      /\ trace' = <<>>]_vars

\* C6 witness: a disconnect() that found nothing to do after an earlier one
\* disconnected the Session.
C6_Witness ==
    /\ DisconnectEnded
    /\ trace = <<>>
    /\ sessions # <<>>
    /\ sessions[Len(sessions)].disconnects = 1

\* C7: connect() takes the Chained Secure path, over every bastion, iff no
\* bastion is legacy, and the Interactive path whenever bastion 0 is legacy,
\* whatever the later bastions and the device declare.
C7_PathFromFirstLegacy ==
    ConnectEnded
    => /\ (\A i \in 1..Len(bastions) : ~IsLegacy(bastions[i]))
            => /\ outcome.path = "netmiko"
               /\ \A j \in 1..Len(trace) :
                    trace[j].op \in {"client.connect", "open_channel",
                                     "ConnectHandler", "conn.enable"}
               /\ outcome.err = "none"
                    => /\ sessions[session].kind = "netmiko"
                       /\ Len(sessions[session].clients) = Len(bastions)
                       /\ \A i \in 1..Len(bastions) :
                            handles[sessions[session].clients[i]].hop = i
       /\ (Len(bastions) >= 1 /\ IsLegacy(bastions[1]))
            => /\ outcome.path = "interactive"
               /\ outcome.err # "NotImplementedError"
               /\ trace # <<>>
               /\ trace[1].op = "telnet.open"
               /\ outcome.err = "none" => sessions[session].kind = "interactive"

\* C7 witness: an Interactive Session built through a legacy bastion 0, a
\* secure bastion 1 and a legacy device.
C7_Witness ==
    /\ ConnectEnded
    /\ outcome.err = "none"
    /\ Len(bastions) = 2
    /\ bastions[1] = "Telnet"
    /\ bastions[2] = "ssh"
    /\ device.protocol = "telnet"
    /\ sessions[session].kind = "interactive"

\* C8: when the first legacy bastion is not bastion 0, connect() fails with
\* the unsupported-topology error, nothing has been opened and the manager
\* holds no Session.
C8_SecureBeforeLegacyRejected ==
    (/\ ConnectEnded
     /\ \E i \in 2..Len(bastions) :
            IsLegacy(bastions[i]) /\ \A j \in 1..(i - 1) : ~IsLegacy(bastions[j]))
    => /\ outcome.err = "NotImplementedError"
       /\ trace = <<>>
       /\ handles = <<>>
       /\ sessions = <<>>
       /\ session = 0

\* C8 witness: connect() ended on a secure bastion followed by a legacy one.
C8_Witness ==
    /\ ConnectEnded
    /\ bastions = <<"ssh", "Telnet">>
    /\ outcome.err = "NotImplementedError"

\* C9: NetmikoSession.disconnect() disconnects the engine first, then
\* attempts close() on every hop client of the Session, latest opened first,
\* each exactly once; no failure among them propagates or skips a later close.
C9_NetmikoDisconnectOrder ==
    (DisconnectEnded /\ outcome.path = "netmiko")
    => /\ outcome.err = "none"
       /\ trace # <<>>
       /\ trace[1].op = "conn.disconnect"
       /\ handles[trace[1].h].kind = "engine"
       /\ handles[trace[1].h].closes = 1
       /\ \E n \in DOMAIN sessions :
            LET cs == sessions[n].clients
            IN /\ sessions[n].conn = trace[1].h
               /\ Len(trace) = Len(cs) + 1
               /\ {trace[j].h : j \in 2..Len(trace)} = {cs[i] : i \in 1..Len(cs)}
       /\ \A j \in 2..Len(trace) :
            /\ trace[j].op = "client.close"
            /\ handles[trace[j].h].closes = 1
            /\ \A k \in 2..(j - 1) : trace[k].h > trace[j].h

\* C9 witness: the engine disconnect and the first close both raised, and the
\* remaining close was still attempted.
C9_Witness ==
    /\ DisconnectEnded
    /\ outcome.path = "netmiko"
    /\ Len(trace) = 3
    /\ ~trace[1].ok
    /\ ~trace[2].ok
    /\ trace[3].op = "client.close"

\* C10: when send_command raises on the k-th applicable command, the error
\* leaves execute_commands and send_command was invoked for applicable
\* commands 1..k only.
C10_ErrorAbortsRemaining ==
    ExecuteFailed
    => /\ runErr = outcome.err
       /\ sent # <<>>
       /\ Len(sent) <= Len(Applicable)
       /\ \A j \in 1..Len(sent) :
            /\ sent[j].name = Applicable[j].name
            /\ sent[j].raised <=> (j = Len(sent))

\* C10 witness: the first of two applicable commands raised.
C10_Witness ==
    /\ ExecuteFailed
    /\ Len(sent) = 1
    /\ Len(Applicable) = 2

\* C11: execute_commands invokes send_command for the applicable commands in
\* declaration order, each only after the one before it returned, and on
\* success the i-th CommandResult is that of the i-th applicable command.
C11_DeclarationOrder ==
    outcome.op = "execute_commands"
    => /\ \A i \in 1..Len(sent) : \A j \in 1..Len(sent) :
            i < j => (sent[i].name < sent[j].name /\ ~sent[i].raised)
       /\ outcome.err = "none"
            => /\ Len(results) = Len(Applicable)
               /\ Len(sent) = Len(Applicable)
               /\ \A i \in 1..Len(results) :
                    /\ results[i].command_name = Applicable[i].name
                    /\ sent[i].name = Applicable[i].name

\* C11 witness: a batch of two applicable commands that succeeded.
C11_Witness ==
    /\ outcome.op = "execute_commands"
    /\ outcome.err = "none"
    /\ Len(results) = 2

\* Two vendor tags that differ at most in case.
SameIgnoringCase(a, b) ==
    \E tags \in {{"cisco", "Cisco"}, {"juniper", "Juniper"}} : a \in tags /\ b \in tags

Admitted(c) == c.vendor = None \/ SameIgnoringCase(c.vendor, device.vendor)

\* C12: a command is sent only if its vendor filter is null or equals the
\* device's vendor ignoring case; every command is skipped iff it is not so
\* admitted (never both sent and skipped); on success every admitted command
\* has exactly one CommandResult and a skipped command has none.
C12_VendorFilter ==
    outcome.op = "execute_commands"
    => \A i \in DOMAIN commands :
        LET wasSent == \E j \in 1..Len(sent) : sent[j].name = i
            wasSkipped == \E j \in 1..Len(skipped) : skipped[j] = i
        IN /\ wasSent => Admitted(commands[i])
           /\ wasSkipped <=> ~Admitted(commands[i])
           /\ ~(wasSent /\ wasSkipped)
           /\ outcome.err = "none"
                => /\ wasSent <=> Admitted(commands[i])
                   /\ Cardinality({j \in 1..Len(results) : results[j].command_name = i})
                        = (IF Admitted(commands[i]) THEN 1 ELSE 0)

\* C12 witness: filters [Cisco, null] against a juniper device gave exactly
\* one result, that of the null-filter command.
C12_Witness ==
    /\ outcome.op = "execute_commands"
    /\ outcome.err = "none"
    /\ device.vendor = "juniper"
    /\ Len(commands) = 2
    /\ commands[1].vendor = "Cisco"
    /\ commands[2].vendor = None
    /\ Len(results) = 1
    /\ results[1].command_name = 2
    /\ skipped = <<1>>

-----------------------------------------------------------------------------
\* Telnet negotiation as the stream defines it, whatever the reads were.

\* One byte of the stream; st is [mode, cmd, payload, replies].
RefStep(st, b) ==
    CASE st.mode = "data" ->
            IF b = IAC THEN [st EXCEPT !.mode = "iac"]
            ELSE [st EXCEPT !.payload = Append(@, b)]
      [] st.mode = "iac" ->
            IF b \in {WILL, WONT, DO, DONT} THEN [st EXCEPT !.mode = "opt", !.cmd = b]
            ELSE IF b = SB THEN [st EXCEPT !.mode = "sb"]
            ELSE IF b = IAC THEN [st EXCEPT !.mode = "data", !.payload = Append(@, IAC)]
            ELSE [st EXCEPT !.mode = "data"]
      [] st.mode = "opt" ->
            [st EXCEPT !.mode = "data",
                       !.replies = @ \o (IF st.cmd = WILL THEN <<IAC, DONT, b>>
                                         ELSE IF st.cmd = DO THEN <<IAC, WONT, b>>
                                         ELSE <<>>)]
      [] st.mode = "sb" ->
            IF b = IAC THEN [st EXCEPT !.mode = "sbiac"] ELSE st
      [] st.mode = "sbiac" ->
            IF b = SE THEN [st EXCEPT !.mode = "data"]
            ELSE IF b = IAC THEN st
            ELSE [st EXCEPT !.mode = "sb"]

\* The stream from i on; a run of plain data bytes is taken in one step.
RECURSIVE RefRun(_, _, _)
RefRun(stream, i, st) ==
    IF i > Len(stream) THEN st
    ELSE IF st.mode = "data" /\ stream[i] # IAC
    THEN RefRun(stream, PlainRunEnd(stream, i),
                [st EXCEPT !.payload = @ \o SubSeq(stream, i, PlainRunEnd(stream, i) - 1)])
    ELSE RefRun(stream, i + 1, RefStep(st, stream[i]))

RefParse(stream) ==
    RefRun(stream, 1, [mode |-> "data", cmd |-> 0, payload |-> <<>>, replies |-> <<>>])

Plain(bytes) == \A i \in 1..Len(bytes) : bytes[i] # IAC

\* A single read of a stream agrees with the stream's own reading.
SingleReadAgrees ==
    [][rcvd = <<>> => /\ sentBytes' = RefParse(rcvd').replies
                      /\ buffer' = RefParse(rcvd').payload]_vars

\* C13: for every negotiation triplet in the received stream, however the
\* stream was divided into reads, exactly one reply has been sent: IAC DONT
\* opt for each IAC WILL opt, IAC WONT opt for each IAC DO opt, in order.
C13_OneReplyPerTriplet == sentBytes = RefParse(rcvd).replies

\* C14: the bytes kept as text are the received stream with every
\* negotiation sequence removed, in order, IAC IAC giving one 0xFF byte; and
\* IAC WILL opt followed by printable text reads back as exactly that text
\* with IAC DONT opt sent.
C14_NegotiationRemoved ==
    /\ buffer = RefParse(rcvd).payload
    /\ \A opt \in StreamBytes \ {IAC} :
         \A n \in 1..MaxStream :
            (/\ Len(rcvd) = 3 + n
             /\ SubSeq(rcvd, 1, 3) = <<IAC, WILL, opt>>
             /\ \A i \in 4..Len(rcvd) : rcvd[i] = 97)
            => /\ DecodeBuffer(buffer) = SubSeq(rcvd, 4, Len(rcvd))
               /\ sentBytes = <<IAC, DONT, opt>>

\* C15: a sub-negotiation block IAC SB ... IAC SE between plain data leaves
\* only the plain data in the buffer, also when IAC SE came in a later read.
C15_SubnegotiationDiscarded ==
    \A i \in 1..Len(rcvd) : \A j \in 1..Len(rcvd) :
        (/\ i + 1 < j /\ j + 1 <= Len(rcvd)
         /\ rcvd[i] = IAC /\ rcvd[i + 1] = SB
         /\ rcvd[j] = IAC /\ rcvd[j + 1] = SE
         /\ Plain(SubSeq(rcvd, 1, i - 1))
         /\ Plain(SubSeq(rcvd, i + 2, j - 1))
         /\ Plain(SubSeq(rcvd, j + 2, Len(rcvd))))
        => buffer = SubSeq(rcvd, 1, i - 1) \o SubSeq(rcvd, j + 2, Len(rcvd))

-----------------------------------------------------------------------------
\* read_until

\* Everything received during the call, as text.
ReceivedText == DecodeBuffer(RefParse(rcvd).payload)

\* C16: read_until returns only after a match and a full stabilization
\* interval without data, counted anew from every arrival; the text returned
\* holds all data received during the call and the buffer is empty.
C16_StabilizedReturn ==
    call.phase = "returned"
    => /\ call.matched_at >= 0
       /\ call.now >= call.matched_at + StableWait
       /\ call.last_data >= 0 => call.now >= call.last_data + StableWait
       /\ call.result = ReceivedText
       /\ buffer = <<>>

\* Data arrived after the match and is part of the text returned.
C16_Witness ==
    /\ call.phase = "returned"
    /\ call.last_data > call.matched_at
    /\ Len(call.result) >= 2
    /\ call.now > call.matched_at + StableWait

\* A TimeoutError carries no text but the last 200 characters of what was
\* received, none of which matched; text is returned only after a match.
TimeoutOutcome ==
    /\ call.phase = "timeout"
       => LET text == ReceivedText
              tail == call.tail
              skip == Len(text) - Len(tail)
          IN /\ call.result = <<>>
             /\ call.now >= call.deadline
             /\ ~Matches(call.patterns, text)
             /\ Len(tail) = Min(200, Len(text))
             /\ tail = SubSeq(text, skip + 1, Len(text))
    /\ call.phase = "returned" => call.matched_at >= 0

\* With no match and the deadline reached, the next step of the call raises
\* TimeoutError.
TimeoutRaised ==
    (/\ call.phase = "main"
     /\ ~Matches(call.patterns, DecodeBuffer(buffer))
     /\ call.now >= call.deadline)
    => call'.phase = "timeout"

\* C17: with no match when the deadline is reached read_until raises
\* TimeoutError, whose message carries the last 200 characters of the decoded
\* text; it never returns text in that case.
C17_TimeoutCarriesTail == []TimeoutOutcome /\ [][TimeoutRaised]_vars

\* A timeout with more than 200 characters accumulated.
C17_Witness ==
    /\ call.phase = "timeout"
    /\ Len(ReceivedText) > 200
    /\ Len(call.tail) = 200

\* C18: when the peer closes while read_until waits in recv and nothing has
\* matched, the call ends with ConnectionError: no text, no TimeoutError.
C18_PeerCloseRaises ==
    [][(/\ call.phase = "main"
        /\ ~Matches(call.patterns, DecodeBuffer(buffer))
        /\ ~call.peer_closed
        /\ call'.peer_closed)
       => /\ call'.phase = "closed"
          /\ call'.result = <<>>
          /\ call'.tail = <<>>
      ]_vars

\* The peer closed after sending something that did not match.
C18_Witness ==
    /\ call.phase = "closed"
    /\ call.peer_closed
    /\ rcvd # <<>>

\* C19: a read_until call, in progress or ended, is never later than its
\* deadline plus one stabilization interval.
C19_BoundedByTimeout ==
    call.phase # "idle" => call.now <= call.deadline + StableWait

-----------------------------------------------------------------------------
\* Prompt anchoring

\* A prompt of the pattern sits at p and only whitespace follows up to `last`.
PromptEndsAt(pattern, text, p, last) ==
    /\ text[p] \in PromptChars(pattern)
    /\ NeedsHost(pattern) => (p > 1 /\ IsHostChar(text[p - 1]))
    /\ \A i \in (p + 1)..last : IsSpace(text[i])

\* The prompt is the end of the accumulated text.
EndsWithPrompt(pattern, text) ==
    \E p \in 1..Len(text) : PromptEndsAt(pattern, text, p, Len(text))

\* The prompt ends some line of the accumulated text.
EndsALineWithPrompt(pattern, text) ==
    \E p \in 1..Len(text) : \E last \in p..Len(text) :
        /\ last = Len(text) \/ text[last + 1] = LF
        /\ PromptEndsAt(pattern, text, p, last)

Searched == probe.pattern # "none"

\* C20 as stated: a vendor prompt counts as matched only when the prompt is
\* the end of the accumulated text (end-of-buffer anchored).
C20_EndOfBufferAnchored ==
    (Searched /\ probe.matched) => EndsWithPrompt(probe.pattern, probe.text)

\* C20: vendor prompt patterns are end-of-line anchored: a vendor prompt
\* counts as matched exactly when a prompt, followed by nothing but
\* whitespace, ends some line of the accumulated text, the last line or an
\* earlier one.
C20_EndOfLineAnchored ==
    Searched => (probe.matched <=> EndsALineWithPrompt(probe.pattern, probe.text))

\* "h>" on the first line, "h" on the second: matched by a vendor pattern.
C20_Witness ==
    /\ Searched
    /\ probe.pattern = "juniper"
    /\ probe.text = <<104, 62, LF, 104>>
    /\ probe.matched

-----------------------------------------------------------------------------
\* _clean_output

Cleaned == probe.pattern # "none"

\* The lines of the raw text, where the echo is and where the trailing
\* prompt lines begin.
RawLines == SplitLines(probe.raw)
FirstNonBlank ==
    LET solid == {i \in 1..Len(RawLines) : Strip(RawLines[i]) # <<>>}
    IN IF solid = {} THEN Len(RawLines) + 1 ELSE First(solid)
EchoDropped ==
    /\ FirstNonBlank <= Len(RawLines)
    /\ HasSub(RawLines[FirstNonBlank], Strip(probe.command))
FirstKept == IF EchoDropped THEN FirstNonBlank + 1 ELSE FirstNonBlank
LastKept ==
    LET other == {i \in FirstKept..Len(RawLines) :
                    ~Search(probe.pattern, Strip(RawLines[i]))}
    IN IF other = {} THEN FirstKept - 1 ELSE Last(other)

\* The lines from a to b of the raw text without line e.
RECURSIVE LinesWithout(_, _, _)
LinesWithout(a, b, e) ==
    IF a > b THEN <<>>
    ELSE IF a = e THEN LinesWithout(a + 1, b, e)
    ELSE <<RawLines[a]>> \o LinesWithout(a + 1, b, e)

\* C22 as stated: the result is the raw text without the echo line (if the
\* first non-blank line contains the command) and without the trailing run
\* of prompt lines; no other line is removed or reordered.
C22_OnlyEchoAndPromptRemoved ==
    Cleaned =>
        SplitLines(probe.out)
            = LinesWithout(1, LastKept, IF EchoDropped THEN FirstNonBlank ELSE 0)

\* C22: the result is the raw text without the blank lines before the first
\* non-blank line, without that line if it contains the command, and without
\* the trailing run of prompt lines, the remainder stripped of leading and
\* trailing whitespace; "show version\nJunos: 21.4R1\nhost>" gives
\* "Junos: 21.4R1".
C22_EchoPromptAndMarginsRemoved ==
    Cleaned =>
        /\ probe.out = Strip(Join(RawLines, FirstKept - 1, LastKept))
        /\ (probe.raw = ExampleRaw /\ probe.command = ExampleCommand)
            => probe.out = <<74, 117, 110, 111, 115, 58, 32, 50, 49, 46, 52, 82, 49>>

\* An echo line, an output line and a prompt line.
C22_Witness ==
    /\ Cleaned
    /\ probe.raw = <<115, LF, 120, LF, 62>>
    /\ probe.command = <<115>>
    /\ probe.pattern = "generic"
    /\ probe.out = <<120>>

-----------------------------------------------------------------------------
\* InteractiveSession: the log of the method that ran last

IsWrite(e, what) == e.op = "write" /\ e.what = what
IsRead(e, patterns) == e.op = "read" /\ e.pats = patterns
Matched(e) == e.op = "read" /\ e.err = "none" /\ SearchAny(e.pats, e.text)
Count(log, what) == Cardinality({k \in DOMAIN log : IsWrite(log[k], what)})
Line(text) == text \o <<CR, LF>>

\* A read that raised is the last thing its method did, the method ends with
\* that exception, and the exception is TimeoutError unless the peer closed
\* the connection.
FailedReadEndsCall ==
    \A k \in DOMAIN trace :
        (trace[k].op = "read" /\ trace[k].err # "none") =>
            /\ k = Len(trace)
            /\ outcome.err = trace[k].err
            /\ trace[k].err = IF wire = <<>> THEN "TimeoutError" ELSE "ConnectionError"
            /\ wire # <<>> => Head(wire) = EOF

-----------------------------------------------------------------------------
\* send_command and the pager

SendCommandDone == call.phase = "session" /\ call.op = "send_command"
CommandIndex == CHOOSE i \in 1..MaxCommands : trace[1].text = Line(CommandText(i))
Markers(i) == {<<Emits(i).page>>, <<Emits(i).pageline>>, <<Emits(i).morepage>>}

\* C21: when the device answers a command with a page that ends in a pager
\* marker, send_command writes a continuation keystroke, and when the device
\* answers that keystroke with the second page and the prompt, send_command
\* returns the two pages joined, without marker and prompt, having written
\* exactly one keystroke ("page1\n--More--\n" then "page2\n<prompt>" gives
\* "page1\npage2").
C21_PagesJoined ==
    (SendCommandDone /\ ~call.stale /\ trace[1].answer \in Markers(CommandIndex)) =>
        /\ Count(trace, "space") >= 1
        /\ \A k \in DOMAIN trace :
              (IsWrite(trace[k], "space") /\ trace[k].answer = <<Emits(CommandIndex).rest>>) =>
                  /\ outcome.err = "none"
                  /\ Count(trace, "space") = 1
                  /\ call.result = OutputLine(CommandIndex) \o <<LF>> \o OutputLine(CommandIndex)

-----------------------------------------------------------------------------
\* login_shell

LoginDone == call.phase = "session" /\ call.op = "login_shell"
SawLoginPrompt == trace[1].err = "none" /\ SearchAny(LoginPatterns, trace[1].text)

\* The parts of the sequence that do not depend on how often the password is
\* written.
LoginSequence ==
    /\ IsRead(trace[1], {"login", "username", "password", "shell"})
    /\ Count(trace, "username") = IF SawLoginPrompt THEN 1 ELSE 0
    /\ \A k \in DOMAIN trace :
          IsWrite(trace[k], "username") =>
              /\ k = 2 /\ trace[k].text = Line(Account(1).username)
              /\ Len(trace) >= 3 /\ IsRead(trace[3], PassPattern)
              /\ Len(trace) > 3 => Matched(trace[3])
    /\ \A k \in DOMAIN trace :
          IsWrite(trace[k], "password") =>
              /\ trace[k].text = Line(Account(1).password)
              /\ k = Len(trace) - 1
              /\ IsRead(trace[Len(trace)], {"shell"})
    /\ outcome.err = "none" =>
          /\ Matched(trace[Len(trace)]) /\ IsRead(trace[Len(trace)], {"shell"})
          /\ IsWrite(trace[Len(trace) - 1], "password")
    /\ FailedReadEndsCall

\* C23 as stated: the sequence of login_shell, with the password written
\* exactly once in every run that gets past the first wait.
C23_PasswordPastFirstWait ==
    LoginDone =>
        /\ LoginSequence
        /\ trace[1].err = "none" => Count(trace, "password") = 1

\* C23: login_shell waits for a login, user name, password or shell prompt;
\* it writes the user name iff the matched text holds a login or user name
\* prompt and then waits for a password prompt before it writes anything
\* else; it writes the password exactly once in every run in which each wait
\* before the password matched, and never otherwise; it returns only after
\* a shell prompt matched following the password; a wait that fails ends
\* the call with no further write.
C23_LoginSequence ==
    LoginDone =>
        /\ LoginSequence
        /\ Count(trace, "password") =
              IF trace[1].err = "none" /\ (SawLoginPrompt => Matched(trace[3]))
              THEN 1 ELSE 0

C23_Witness ==
    /\ LoginDone
    /\ outcome.err = "none"
    /\ Count(trace, "username") = 1
    /\ Count(trace, "password") = 1

-----------------------------------------------------------------------------
\* ssh_to and telnet_to

HopDone == call.phase = "session" /\ call.op \in {"ssh_to", "telnet_to"}
HopProtocol == IF call.hop <= Len(bastions) THEN bastions[call.hop] ELSE device.protocol
Whats(log) == [k \in 1..Len(Written(log)) |-> Written(log)[k].what]

\* The answer to the hop command reports a failure the method looks for.
FailureReported ==
    \/ call.op = "ssh_to" /\ trace[1].answer \in {<<Says.refused>>, <<Says.noroute>>, <<Says.unknown>>}
    \/ call.op = "telnet_to" /\ trace[1].answer = <<Says.refused>>

\* C24: when the answer to the hop command of ssh_to reports a refused
\* connection, an unreachable host or a name that does not resolve (for
\* telnet_to: a refused connection), the call ends in ConnectionError and
\* has written nothing after the hop command, so never the password.
C24_RefusedHopRaises ==
    (HopDone /\ FailureReported) =>
        /\ outcome.err = "ConnectionError"
        /\ Whats(trace) = <<"hop_command">>
        /\ Count(trace, "password") = 0

C24_Witness ==
    /\ HopDone
    /\ call.op = "ssh_to"
    /\ trace[1].answer = <<Says.unknown>>
    /\ outcome.err = "ConnectionError"

\* The write between the hop command and the password: the answer to a
\* host-key question in ssh_to, the user name in telnet_to.
Between == IF call.op = "ssh_to" THEN "yes" ELSE "username"
Asked ==
    /\ Matched(trace[2])
    /\ ~FailureReported
    /\ IF call.op = "ssh_to" THEN SearchAny(HostKeyQuestions, trace[2].text)
       ELSE SearchAny(LoginPatterns, trace[2].text)

\* C25: a hop, to a bastion or to the device, uses the operation of its
\* protocol and returns only after a read for the device vendor's prompt
\* pattern matched following the password; the answer to a host-key question
\* (the user name in telnet_to) is written iff the answer to the hop command
\* asks for it, and is followed by a wait for the password prompt that must
\* match before the password is written; the writes are the hop command,
\* then that answer if any, then the password, each with the hop's values.
C25_HopSequence ==
    HopDone =>
        /\ call.op = HopOp(HopProtocol)
        /\ IsWrite(trace[1], "hop_command")
        /\ trace[1].text = Line(IF call.op = "ssh_to"
                                THEN SshCommand(Account(call.hop).username, Account(call.hop).host)
                                ELSE TelnetCommand(Account(call.hop).host))
        /\ Whats(trace) \in {<<"hop_command">>, <<"hop_command", "password">>,
                             <<"hop_command", Between>>,
                             <<"hop_command", Between, "password">>}
        /\ Count(trace, Between) = IF Asked THEN 1 ELSE 0
        /\ \A k \in DOMAIN trace :
              IsWrite(trace[k], Between) =>
                  /\ Len(trace) > k /\ IsRead(trace[k + 1], {"password"})
                  /\ Len(trace) > k + 1 => Matched(trace[k + 1])
        /\ \A k \in DOMAIN trace :
              IsWrite(trace[k], "password") =>
                  /\ trace[k].text = Line(Account(call.hop).password)
                  /\ k = Len(trace) - 1
                  /\ IsRead(trace[Len(trace)], {VendorPrompt(device.vendor)})
        /\ outcome.err = "none" =>
              /\ Matched(trace[Len(trace)])
              /\ IsWrite(trace[Len(trace) - 1], "password")
              /\ Search(VendorPrompt(device.vendor), call.result)

\* A hop to a bastion that asked about the host key.
C25_Witness ==
    /\ HopDone
    /\ call.hop <= Len(bastions)
    /\ outcome.err = "none"
    /\ Whats(trace) = <<"hop_command", "yes", "password">>

-----------------------------------------------------------------------------
\* The order of the hops in connect()

\* The operation a hop's declared protocol asks for.
DeclaredOp(protocol) == IF Lower(protocol) = "ssh" THEN "ssh_to" ELSE "telnet_to"
Called(op, hop) == [op |-> op, hop |-> hop]

\* What a connect() without failure calls, in order, on either path.
InteractivePlan ==
    <<Called("telnet.open", 1), Called("login_shell", 1)>>
    \o [k \in 1..(Len(bastions) - 1) |-> Called(DeclaredOp(bastions[k + 1]), k + 1)]
    \o <<Called(DeclaredOp(device.protocol), Len(bastions) + 1),
         Called("setup_device", Len(bastions) + 1)>>
NetmikoPlan ==
    [k \in 1..(2 * Len(bastions)) |->
        IF k % 2 = 1 THEN Called("client.connect", (k + 1) \div 2)
        ELSE Called("open_channel", k \div 2)]
    \o <<Called("ConnectHandler", 0)>>
    \o (IF device.enable_password THEN <<Called("conn.enable", 0)>> ELSE <<>>)
Plan == IF outcome.path = "interactive" THEN InteractivePlan ELSE NetmikoPlan

\* C26: connect() makes the calls of its path's plan in order -- the bastions
\* in list order, each with the operation of its declared protocol, then the
\* device, then (Interactive path) setup_device once -- and makes a call only
\* when every call before it succeeded; it returns without exception only
\* when the whole plan succeeded.
C26_HopsInListOrder ==
    (ConnectEnded /\ outcome.err # "NotImplementedError") =>
        /\ Len(trace) <= Len(Plan)
        /\ \A k \in DOMAIN trace :
              /\ Called(trace[k].op, trace[k].hop) = Plan[k]
              /\ k < Len(trace) => trace[k].ok
        /\ outcome.err = "none" <=> (Len(trace) = Len(Plan) /\ trace[Len(trace)].ok)

\* An Interactive connect() through a secure and a legacy hop.
C26_Witness ==
    /\ ConnectEnded
    /\ outcome.err = "none"
    /\ outcome.path = "interactive"
    /\ Len(bastions) = 2
    /\ Lower(bastions[2]) # Lower(device.protocol)
    /\ trace[Len(trace)].op = "setup_device"

-----------------------------------------------------------------------------
\* setup_device

SetupDone == call.phase = "session" /\ call.op = "setup_device"
Vendor == Lower(device.vendor)
HasPagerCmd == Vendor \in {"juniper", "cisco"}
Escalates == Vendor = "cisco" /\ device.enable_password
\* Where the escalation begins in the log.
EnableAt == IF HasPagerCmd THEN 3 ELSE 1

\* C27: setup_device writes the pager-disable command of the vendor iff the
\* vendor is juniper or cisco, and then waits for the vendor's prompt; once
\* that step is over it escalates iff the vendor is cisco and a secret is
\* configured: it writes "enable", waits for a password prompt, writes the
\* secret and waits for a prompt ending in #; it writes nothing else, and it
\* returns only when each of its waits matched.
C27_SetupSequence ==
    SetupDone =>
        /\ Count(trace, "pager_off") = IF HasPagerCmd THEN 1 ELSE 0
        /\ HasPagerCmd =>
              /\ IsWrite(trace[1], "pager_off")
              /\ trace[1].text = Line(IF Vendor = "juniper"
                                      THEN <<115, 101, 116, 32, 99, 108, 105, 32, 115, 99, 114, 101, 101, 110, 45, 108, 101, 110, 103, 116, 104, 32, 48>>
                                      ELSE <<116, 101, 114, 109, 105, 110, 97, 108, 32, 108, 101, 110, 103, 116, 104, 32, 48>>)
              /\ IsRead(trace[2], {Vendor})
        /\ Count(trace, "enable") =
              IF Escalates /\ (HasPagerCmd => Matched(trace[2])) THEN 1 ELSE 0
        /\ \A k \in DOMAIN trace :
              IsWrite(trace[k], "enable") =>
                  /\ k = EnableAt
                  /\ trace[k].text = Line(<<101, 110, 97, 98, 108, 101>>)
                  /\ IsRead(trace[k + 1], {"password"})
                  /\ Count(trace, "secret") = IF Matched(trace[k + 1]) THEN 1 ELSE 0
        /\ \A k \in DOMAIN trace :
              IsWrite(trace[k], "secret") =>
                  /\ k = EnableAt + 2
                  /\ trace[k].text = Line(EnablePassword)
                  /\ Len(trace) = k + 1
                  /\ IsRead(trace[k + 1], {"hash"})
        /\ Whats(trace) \in {<<>>, <<"pager_off">>, <<"pager_off", "enable">>,
                             <<"pager_off", "enable", "secret">>}
        /\ outcome.err = "none" =>
              /\ \A k \in DOMAIN trace : trace[k].op = "read" => Matched(trace[k])
              /\ Len(trace) = (IF HasPagerCmd THEN 2 ELSE 0) + (IF Escalates THEN 4 ELSE 0)

\* A cisco device with a secret, set up without exception.
C27_Witness ==
    /\ SetupDone
    /\ outcome.err = "none"
    /\ Whats(trace) = <<"pager_off", "enable", "secret">>

-----------------------------------------------------------------------------
\* Failures of connect() and of send_command

\* The exceptions that report a rejected credential.
AuthenticationErrors == {"AuthenticationException", "NetmikoAuthenticationException"}
Rejections == {<<Says.denied>>, <<Says.password>>}
PasswordRejected ==
    \E k \in DOMAIN trace : IsWrite(trace[k], "password") /\ trace[k].answer \in Rejections

\* C28: when a hop or the device answers the password with a denial or with
\* a renewed password prompt, the call and so connect() end with an
\* authentication failure, not with a Timeout.
C28_RejectionReported ==
    ((HopDone \/ LoginDone) /\ PasswordRejected) => outcome.err \in AuthenticationErrors

\* How often `what` was written for hop `hop` (with text `text`).
Times(what, hop) ==
    Cardinality({k \in DOMAIN sent : sent[k].what = what /\ sent[k].hop = hop})
TimesText(what, text) ==
    Cardinality({k \in DOMAIN sent : sent[k].what = what /\ sent[k].text = text})
Connecting == pc \in {"hop", "device", "setup_device", "connected"}
              \/ (pc = "raised" /\ call.op # "send_command")

\* C29: within one connect() the hop command, the user name and the password
\* of each hop are written at most once; within one execute_commands each
\* command is written at most once; a call that raises has written nothing
\* after the wait that failed or the answer that made it raise, and no call
\* follows it.
C29_NothingRetried ==
    /\ call.phase = "session"
    /\ Connecting =>
          \A hop \in 1..(MaxBastions + 2) :
              \A what \in {"hop_command", "username", "password", "yes"} :
                  Times(what, hop) <= 1
    /\ ~Connecting =>
          \A i \in 1..MaxCommands : TimesText("command", Line(CommandText(i))) <= 1
    /\ outcome.err # "none" =>
          /\ pc = "raised"
          /\ trace # <<>>
          /\ trace[Len(trace)].op = "read"
          /\ \A k \in DOMAIN trace :
                (trace[k].op = "read" /\ trace[k].err # "none") => k = Len(trace)

\* A connect() that failed at the device after the password was written.
C29_Witness ==
    /\ HopDone
    /\ call.hop = Len(bastions) + 1
    /\ outcome.err = "TimeoutError"
    /\ Times("password", call.hop) = 1
    /\ Times("password", 1) = 1

\* The capital letters device output is made of.
OutputLetters == {OutputLine(i)[1] : i \in 1..MaxCommands}

\* C30: the result of command N holds no output the device emitted for
\* another command, also when the device paused in the middle of an output.
C30_NoInterleaving ==
    call.phase = "session" =>
        \A n \in DOMAIN results :
            \A k \in DOMAIN results[n] :
                results[n][k] \in OutputLetters => results[n][k] = OutputLine(n)[1]

-----------------------------------------------------------------------------
\* What the socket sends on its own initiative

Triplets(bytes) == [k \in 1..(Len(bytes) \div 3) |-> SubSeq(bytes, 3 * k - 2, 3 * k)]

\* a can be got from b by leaving elements out.
RECURSIVE Embeds(_, _)
Embeds(a, b) ==
    IF a = <<>> THEN TRUE
    ELSE IF b = <<>> THEN FALSE
    ELSE IF Head(a) = Head(b) THEN Embeds(Tail(a), Tail(b))
    ELSE Embeds(a, Tail(b))

\* Everything sent is made of refusals: IAC DONT opt or IAC WONT opt.
OnlyRefusals ==
    /\ Len(sentBytes) % 3 = 0
    /\ \A k \in DOMAIN Triplets(sentBytes) :
          /\ Triplets(sentBytes)[k][1] = IAC
          /\ Triplets(sentBytes)[k][2] \in {DONT, WONT}

\* C31: what the socket has sent without a write is a sequence of three-byte
\* refusals, IAC DONT opt for a received IAC WILL opt and IAC WONT opt for a
\* received IAC DO opt, in the order received; it holds no IAC WILL or IAC DO
\* and no reply to a received IAC WONT opt or IAC DONT opt or to bytes that
\* were no negotiation.
C31_AgreesToNothing ==
    /\ OnlyRefusals
    /\ Embeds(Triplets(sentBytes), Triplets(RefParse(rcvd).replies))

-----------------------------------------------------------------------------
\* The pager loop of send_command, one read cycle at a time

\* Event k of the call is a read cycle that returned a text.
CycleAt(k) == k \in DOMAIN trace /\ trace[k].op = "read" /\ trace[k].err = "none"

\* The text of read cycle k holds a pager marker somewhere.
PagedAt(k) == CycleAt(k) /\ PatSearch("pager", trace[k].text)

\* The text of read cycle k also ends with the prompt of the vendor.
PromptedAt(k) == CycleAt(k) /\ PatSearch(SessionPrompt(device), trace[k].text)

\* C32: in send_command a pager marker anywhere in the text of a read cycle
\* is followed at once by a continuation keystroke, also when that text ends
\* with the vendor prompt; a keystroke is written for nothing else; and the
\* call returns at the first read cycle whose text holds no pager marker,
\* which is therefore the last thing the call did.
C32_PagerBeforePrompt ==
    call.phase = "paging" =>
        /\ \A k \in DOMAIN trace :
              PagedAt(k) => k < Len(trace) /\ IsWrite(trace[k + 1], "space")
        /\ \A k \in DOMAIN trace :
              IsWrite(trace[k], "space") => PagedAt(k - 1)
        /\ \A k \in DOMAIN trace :
              CycleAt(k) /\ ~PagedAt(k) => k = Len(trace)
        /\ pc = "returned" <=> (CycleAt(Len(trace)) /\ ~PagedAt(Len(trace)))
        /\ IsWrite(trace[Len(trace)], "space") => pc = "cycle"

C32_Witness ==
    /\ call.phase = "paging"
    /\ pc = "returned"
    /\ \E k \in DOMAIN trace :
          PagedAt(k) /\ PromptedAt(k) /\ IsWrite(trace[k + 1], "space")

=============================================================================
